---- MODULE Spec2Model ----
(***************************************************************************)
(* The chat session of src/components/chat/ChatInterface.tsx: the          *)
(* in-memory message list, the Send pipeline (sendMessage), the realtime   *)
(* INSERT handler, Load (fetchMessages), Reset (resetChat), the mode       *)
(* switch (toggleMode), the Ollama availability probe (checkOllama) and    *)
(* the message input (MessageInput.handleSend), against a backing store    *)
(* that other writers share; the queue of images of MessageInput, the      *)
(* subscription effect, the content codec (storeMessageInDB,               *)
(* parseMessageContent) and the provider clients of utils/api              *)
(* (getGroqCompletion, getOllamaCompletion).                               *)
(*                                                                         *)
(* Every `await` of the code is a suspension point. The store serves a     *)
(* request in the step that issues it, and the code after the await runs   *)
(* in a later step (...Resp), so that change-events, probes, other writers *)
(* and other handlers interleave between a request and its continuation.   *)
(***************************************************************************)
EXTENDS Integers, Sequences, FiniteSets, Bags, TLC

\* ------------------------------------------------------------------ bounds
MaxSends  == 2      \* Sends accepted in one session
MaxOther  == 1      \* rows inserted by a second writer
MaxResets == 1      \* Reset requests confirmed in one session
MaxInit   == 1      \* rows already persisted when the session opens

\* ------------------------------------------------------- program constants
TitleMax     == 30
DefaultTitle == "New Chat"
Thinking     == "..."
NoId         == 0

RunIds   == 1..MaxSends
ResetIds == 1..MaxResets

\* what the user can submit: <<text, images>>
Inputs ==
    {<<"Hello", <<>> >>, <<"New Chat", <<>> >>, <<" ", <<"img1">> >>, <<" ", <<>> >>}
Replies == {"Hi there"}

VARIABLES
    db,               \* messages table, rows of this chat in creation order
    nextId,           \* next identifier the store hands out
    events,           \* INSERT change-events not yet delivered (FIFO)
    chat,             \* the chats row: [title, is_active]
    prefMode,         \* user_settings.preferred_mode ("none": no row)
    groqKey,          \* VITE_GROQ_CHAT_API_KEY is configured
    messages,         \* useState messages
    loading,          \* useState loading
    error,            \* useState error ("" is null)
    sending,          \* useState sending
    mode,             \* useState mode
    ollamaAvailable,  \* useState ollamaAvailable
    runs,             \* the sendMessage calls, by order of acceptance
    nRuns,            \* number of sendMessage calls accepted
    ignored,          \* the last handleSend call did nothing
    load,             \* the fetchMessages call of the mount effect
    settings,         \* the fetchUserSettings call of the mount effect
    resets,           \* the resetChat calls
    nOther,           \* rows inserted so far by the second writer
    arg,              \* the arguments of the call of a pure function
    out,              \* what that call returned
    imageQueue,       \* MessageInput: useState images
    uploads,          \* ImageUploader: the processFile calls in flight
    chatId,           \* the chatId prop
    subscriptionRef,  \* subscriptionRef.current (0 is null)
    channels,         \* the realtime channels that are subscribed
    nChannels,        \* channels created so far
    ollamaModel,      \* useState ollamaModel
    availableModels,  \* useState availableModels
    probe,            \* the checkOllama call in flight
    chatsTable,       \* chats table, rows of this user in creation order
    chatsEvents,      \* change-events of the chats table not yet delivered
    chats,            \* ChatPage: useState chats (identifiers, as listed)
    activeChat,       \* ChatPage: useState activeChat (0 is null)
    pageLoading,      \* ChatPage: useState loading
    pageError,        \* ChatPage: useState error ("" is null)
    fetchCalls,       \* the fetchChats calls awaiting their select
    createCalls,      \* the createNewChat calls awaiting their insert
    deleteCalls       \* the deleteChat calls awaiting their update

sessionVars == <<db, nextId, events, chat, prefMode, groqKey, messages, loading,
                 error, sending, mode, ollamaAvailable, runs, nRuns, ignored,
                 load, settings, resets, nOther>>

monitorVars == <<ollamaModel, availableModels, probe>>

pureVars == <<arg, out>>

composerVars == <<imageQueue, uploads>>

subscriptionVars == <<chatId, subscriptionRef, channels, nChannels>>

pageVars == <<chatsTable, chatsEvents, chats, activeChat, pageLoading, pageError,
              fetchCalls, createCalls, deleteCalls>>

vars == <<sessionVars, monitorVars, pureVars, composerVars, subscriptionVars, pageVars>>

storeVars == <<db, nextId, events>>

\* ----------------------------------------------------------------- helpers
Range(s) == {s[k] : k \in DOMAIN s}

\* content.trim() is empty: every character is a blank
IsBlank(t) == \A k \in 1..Len(t) : SubSeq(t, k, k) = " "

\* the character of s at position p, "" outside s
Ch(s, p) == IF p >= 1 /\ p <= Len(s) THEN SubSeq(s, p, p) ELSE ""

RECURSIVE Escape(_)
\* JSON.stringify of the characters of a string: the quote and the backslash
\* are escaped (the texts used have no control characters)
Escape(t) ==
    IF t = "" THEN ""
    ELSE LET c == Ch(t, 1) IN
         (IF c = "\"" \/ c = "\\" THEN "\\" \o c ELSE c)
             \o Escape(SubSeq(t, 2, Len(t)))

\* the string between quotes as it is
M_JsonQuoteRaw(t) == "\"" \o t \o "\""

\* JSON.stringify of a string
JsonQuote(t) == "\"" \o Escape(t) \o "\""

RECURSIVE JoinQuoted(_)
\* the elements of a JSON array of strings
JoinQuoted(images) ==
    IF images = <<>> THEN ""
    ELSE JsonQuote(Head(images))
         \o (IF Tail(images) = <<>> THEN "" ELSE ",") \o JoinQuoted(Tail(images))

\* JSON.stringify({ text, images })
JsonStringify(text, images) ==
    "{\"text\":" \o JsonQuote(text) \o ",\"images\":[" \o JoinQuoted(images) \o "]}"

\* the content column written for a message: JSON when it carries images
StoredContent(text, images) ==
    IF Len(images) > 0 THEN JsonStringify(text, images) ELSE text

\* ------------------------------------------------------------- JSON.parse
\* Values of JavaScript as JSON.parse builds them. Every value has the same
\* shape: a tag, a string and a sequence of values.
JsStr(v)      == [t |-> "str", v |-> v, items |-> <<>>]
JsNum(v)      == [t |-> "num", v |-> v, items |-> <<>>]
JsLit(v)      == [t |-> "lit", v |-> v, items |-> <<>>]
JsArr(items)  == [t |-> "arr", v |-> "", items |-> items]
JsObj(items)  == [t |-> "obj", v |-> "", items |-> items]
JsEntry(k, v) == [t |-> "entry", v |-> k, items |-> <<v>>]

\* the outcome of parsing from a position: the value and the position after it
Parsed(val, pos) == [ok |-> TRUE, val |-> val, pos |-> pos]
SyntaxError      == [ok |-> FALSE, val |-> JsLit("undefined"), pos |-> 0]

Digits == {"0", "1", "2", "3", "4", "5", "6", "7", "8", "9"}

RECURSIVE SkipWs(_, _)
SkipWs(s, p) == IF Ch(s, p) = " " THEN SkipWs(s, p + 1) ELSE p

\* s has the word w at position p
HasWord(s, p, w) == p + Len(w) - 1 <= Len(s) /\ SubSeq(s, p, p + Len(w) - 1) = w

RECURSIVE ParseChars(_, _, _)
\* the characters of a string literal after its opening quote; of the escape
\* sequences, the quote, the backslash and the slash are read
ParseChars(s, p, acc) ==
    LET c == Ch(s, p) IN
    IF c = "" THEN SyntaxError
    ELSE IF c = "\"" THEN Parsed(JsStr(acc), p + 1)
    ELSE IF c = "\\"
         THEN IF Ch(s, p + 1) \in {"\"", "\\", "/"}
                THEN ParseChars(s, p + 2, acc \o Ch(s, p + 1))
                ELSE SyntaxError
    ELSE ParseChars(s, p + 1, acc \o c)

RECURSIVE ParseDigits(_, _, _)
ParseDigits(s, p, acc) ==
    IF Ch(s, p) \in Digits THEN ParseDigits(s, p + 1, acc \o Ch(s, p))
    ELSE Parsed(JsNum(acc), p)

RECURSIVE ParseValue(_, _)
RECURSIVE ParseElements(_, _, _)
RECURSIVE ParseMembers(_, _, _)

\* a JSON value at position p, white space before it skipped
ParseValue(s, p) ==
    LET q == SkipWs(s, p)
        c == Ch(s, q)
    IN IF c = "\"" THEN ParseChars(s, q + 1, "")
       ELSE IF c = "[" THEN
            IF Ch(s, SkipWs(s, q + 1)) = "]"
              THEN Parsed(JsArr(<<>>), SkipWs(s, q + 1) + 1)
              ELSE ParseElements(s, q + 1, <<>>)
       ELSE IF c = "{" THEN
            IF Ch(s, SkipWs(s, q + 1)) = "}"
              THEN Parsed(JsObj(<<>>), SkipWs(s, q + 1) + 1)
              ELSE ParseMembers(s, q + 1, <<>>)
       ELSE IF c \in Digits \ {"0"} THEN ParseDigits(s, q, "")
       ELSE IF c = "0" THEN Parsed(JsNum("0"), q + 1)
       ELSE IF HasWord(s, q, "null") THEN Parsed(JsLit("null"), q + 4)
       ELSE IF HasWord(s, q, "true") THEN Parsed(JsLit("true"), q + 4)
       ELSE IF HasWord(s, q, "false") THEN Parsed(JsLit("false"), q + 5)
       ELSE SyntaxError

\* the elements of an array after "[" or ","
ParseElements(s, p, acc) ==
    LET e == ParseValue(s, p) IN
    IF ~e.ok THEN SyntaxError
    ELSE LET q == SkipWs(s, e.pos) IN
         IF Ch(s, q) = "," THEN ParseElements(s, q + 1, Append(acc, e.val))
         ELSE IF Ch(s, q) = "]" THEN Parsed(JsArr(Append(acc, e.val)), q + 1)
         ELSE SyntaxError

\* the members of an object after "{" or ","
ParseMembers(s, p, acc) ==
    LET q == SkipWs(s, p) IN
    IF Ch(s, q) # "\"" THEN SyntaxError
    ELSE LET k == ParseChars(s, q + 1, "") IN
         IF ~k.ok THEN SyntaxError
         ELSE LET r == SkipWs(s, k.pos) IN
              IF Ch(s, r) # ":" THEN SyntaxError
              ELSE LET e == ParseValue(s, r + 1) IN
                   IF ~e.ok THEN SyntaxError
                   ELSE LET u == SkipWs(s, e.pos)
                            m == Append(acc, JsEntry(k.val.v, e.val))
                        IN IF Ch(s, u) = "," THEN ParseMembers(s, u + 1, m)
                           ELSE IF Ch(s, u) = "}" THEN Parsed(JsObj(m), u + 1)
                           ELSE SyntaxError

\* JSON.parse(s): one value and nothing but white space after it; ~ok is the
\* SyntaxError it throws
JsonParse(s) ==
    LET r == ParseValue(s, 1) IN
    IF r.ok /\ SkipWs(s, r.pos) = Len(s) + 1 THEN r ELSE SyntaxError

\* obj.key !== undefined, and obj.key (the last member of that name)
HasKey(obj, key) == \E k \in DOMAIN obj.items : obj.items[k].v = key
GetKey(obj, key) ==
    LET last == CHOOSE k \in DOMAIN obj.items :
                    /\ obj.items[k].v = key
                    /\ \A j \in DOMAIN obj.items : obj.items[j].v = key => j <= k
    IN obj.items[last].items[1]

\* a value that `||` passes over
Falsy(val) ==
    \/ val.t = "str" /\ val.v = ""
    \/ val.t = "num" /\ val.v = "0"
    \/ val.t = "lit" /\ val.v \in {"null", "false"}

\* the message a content column is rendered as: text and images
PlainText(content) == [text |-> JsStr(content), images |-> <<>>]

\* parseMessageContent without the test of parsed.text
M_ParseMessageContentNoTest(content) ==
    IF Ch(content, 1) = "{" /\ Ch(content, Len(content)) = "}"
    THEN LET parsed == JsonParse(content) IN
         IF parsed.ok
         THEN [text   |-> IF ~HasKey(parsed.val, "text")
                             \/ Falsy(GetKey(parsed.val, "text")) THEN JsStr("")
                          ELSE GetKey(parsed.val, "text"),
               images |-> IF HasKey(parsed.val, "images")
                             /\ GetKey(parsed.val, "images").t = "arr"
                          THEN GetKey(parsed.val, "images").items ELSE <<>>]
         ELSE PlainText(content)
    ELSE PlainText(content)

\* parseMessageContent(content)
ParseMessageContent(content) ==
    IF Ch(content, 1) = "{" /\ Ch(content, Len(content)) = "}"
    THEN LET parsed == JsonParse(content) IN
         IF parsed.ok /\ HasKey(parsed.val, "text")
         THEN [text   |-> IF Falsy(GetKey(parsed.val, "text")) THEN JsStr("")
                          ELSE GetKey(parsed.val, "text"),
               images |-> IF HasKey(parsed.val, "images")
                             /\ GetKey(parsed.val, "images").t = "arr"
                          THEN GetKey(parsed.val, "images").items ELSE <<>>]
         ELSE PlainText(content)
    ELSE PlainText(content)

\* the derived title when the text is longer than TitleMax - 1
M_DeriveTitleFromThirty(content) ==
    IF Len(content) >= TitleMax THEN SubSeq(content, 1, TitleMax) \o "..." ELSE content

\* the title derived from the first message
DeriveTitle(content) ==
    IF Len(content) > TitleMax THEN SubSeq(content, 1, TitleMax) \o "..." ELSE content

\* ------------------------------------------------------------ message values
\* A row of the messages table. `by` records which sendMessage call wrote it
\* (0: another writer or an earlier session), `kind` what it was written as.
Row(id, role, content, by, kind) ==
    [id |-> id, role |-> role, content |-> content, by |-> by, kind |-> kind]

\* tempUserMessage of call i: no id; (by, kind) stand for the object's identity
TempUser(i) ==
    Row(NoId, "user", StoredContent(runs[i].content, runs[i].images), i, "tempUser")

\* tempAiMessage of call i
TempAi(i) == Row(NoId, "assistant", Thinking, i, "tempAi")

IsTempUser(m, i) == m.kind = "tempUser" /\ m.by = i
IsTempAi(m, i)   == m.kind = "tempAi" /\ m.by = i

NoRow == Row(NoId, "none", "", 0, "none")

\* what a failed select of the chat's title leaves in place of the title
SelectFailed == "<select failed>"

\* what a failed select of the user's settings leaves in place of the mode
NoSettings == "none"

\* ------------------------------------------------------------ error strings
ErrLoad  == "Failed to load messages"
ErrReset == "Failed to reset chat"
ErrMode  == "Ollama is not running. Please start Ollama before switching to offline mode."
MsgPersist  == "persistence failed"
MsgNoKey    == "Please set a valid Groq Chat API key in your .env file"
MsgNoOllama == "Ollama is not running. Please start Ollama and try again."
MsgGroq     == "Groq API error"
MsgOllama   == "Failed to get response from Ollama: request failed"
ErrSend(msg) == "Error sending message: " \o msg
ErrAi(msg)   == "AI response error: " \o msg
SorryText(msg) ==
    "Sorry, I encountered an error while processing your request: " \o msg
        \o ". Please try again."

\* ------------------------------------------------------------------- state
IdleRun ==
    [pc |-> "idle", content |-> "", images |-> <<>>, mode |-> "online",
     avail |-> FALSE, ret |-> NoRow, hist |-> 0, reply |-> "", msg |-> "",
     seen |-> "", fail |-> "none", did |-> {}]

InitRows(n) == [k \in 1..n |-> Row(k, "user", "Earlier", 0, "other")]

\* The state once the component is mounted: the mount effects have issued
\* fetchMessages (setLoading(true), setError(null)) and fetchUserSettings, and
\* the store has served both selects.
InitSession ==
    /\ \E n \in 0..MaxInit : db = InitRows(n) /\ nextId = n + 1
    /\ events = <<>>
    /\ chat = [title |-> DefaultTitle, is_active |-> TRUE]
    /\ prefMode \in {"none", "online", "offline"}
    /\ groqKey \in BOOLEAN
    /\ messages = <<>>
    /\ loading = TRUE
    /\ error = ""
    /\ sending = FALSE
    /\ mode = "online"
    /\ ollamaAvailable = FALSE
    /\ runs = [i \in RunIds |-> IdleRun]
    /\ nRuns = 0
    /\ ignored = FALSE
    /\ \E ok \in BOOLEAN :
         load = [pc |-> "resp", ok |-> ok, data |-> IF ok THEN db ELSE <<>>]
    /\ \E ok \in BOOLEAN :
         settings = [pc |-> "resp", ok |-> ok,
                     data |-> IF ok THEN prefMode ELSE NoSettings]
    /\ resets = [k \in ResetIds |-> "idle"]
    /\ nOther = 0

\* no pure function is being called
NoArg == [fn |-> "none"]
NoOut == [fn |-> "none"]
InitPure == arg = NoArg /\ out = NoOut

\* MessageInput: useState<string[]>([]); no file is being processed
InitComposer == imageQueue = <<>> /\ uploads = EmptyBag

\* the mount effect has subscribed the channel of the chat and stored it in
\* subscriptionRef
InitSubscription ==
    /\ chatId = 1
    /\ subscriptionRef = 1
    /\ channels = {1}
    /\ nChannels = 1

\* the default model is selected, no model list has been fetched, and the
\* mount effect has called checkOllama, which awaits isOllamaRunning
DefaultOllamaModel == "gemma3:4b-it-q4_K_M"

IdleProbe == [pc |-> "idle", model |-> ""]

InitMonitor ==
    /\ ollamaModel = DefaultOllamaModel
    /\ availableModels = <<>>
    /\ probe = [pc |-> "running", model |-> DefaultOllamaModel]

\* ChatPage: a row of the chats table; `by` records the call that inserted it
ChatRow(id, by) == [id |-> id, is_active |-> TRUE, by |-> by]

NoChat == 0

\* select * from chats where is_active order by updated_at desc: the
\* identifiers of the active rows, the newest first
RECURSIVE ActiveChats(_)
ActiveChats(table) ==
    IF table = <<>> THEN <<>>
    ELSE LET last == table[Len(table)]
             rest == ActiveChats(SubSeq(table, 1, Len(table) - 1))
         IN IF last.is_active THEN <<last.id>> \o rest ELSE rest

\* ChatPage at rest: the conversation of the session is listed and active
InitPage ==
    /\ chatsTable = <<ChatRow(1, "initial")>>
    /\ chatsEvents = 0
    /\ chats = <<1>>
    /\ activeChat = 1
    /\ pageLoading = FALSE
    /\ pageError = ""
    /\ fetchCalls = <<>>
    /\ createCalls = <<>>
    /\ deleteCalls = <<>>

Init == InitSession /\ InitMonitor /\ InitPure /\ InitComposer /\ InitSubscription /\ InitPage

\* ------------------------------------------------------------ backing store
\* INSERT into messages: the row gets the next id and the current time, and
\* the change-event for it is queued for the subscribed session
InsertRow(row) ==
    /\ db' = Append(db, row)
    /\ events' = Append(events, row)
    /\ nextId' = nextId + 1

\* storeMessageInDB(role, text, images), served by the store: the inserted
\* row on success (data[0]), NoRow with the store untouched on an error
StoreMessageInDB(ok, role, text, images, by, kind) ==
    IF ok THEN Row(nextId, role, StoredContent(text, images), by, kind) ELSE NoRow

Served(ret) ==
    IF ret = NoRow THEN UNCHANGED storeVars ELSE InsertRow(ret)

\* a second writer (another session of the same user) inserts a message
OtherInsert ==
    /\ nOther < MaxOther
    /\ nOther' = nOther + 1
    /\ InsertRow(Row(nextId, "user", "Other", 0, "other"))
    /\ UNCHANGED <<chat, prefMode, groqKey, messages, loading, error, sending,
                   mode, ollamaAvailable, runs, nRuns, ignored, load, settings,
                   resets>>

\* ------------------------------------------------- realtime INSERT handler
\* the handler without the lookup of the identifier
M_OnInsertAlwaysAppends(prev, newMessage) == Append(prev, newMessage)

\* setMessages(prev => prev.some(msg => msg.id === newMessage.id) ? prev
\*                                                          : [...prev, newMessage])
OnInsert(prev, newMessage) ==
    IF \E k \in DOMAIN prev : prev[k].id = newMessage.id THEN prev
    ELSE Append(prev, newMessage)

DeliverEvent ==
    /\ subscriptionRef \in channels
    /\ events # <<>>
    /\ messages' = OnInsert(messages, Head(events))
    /\ events' = Tail(events)
    /\ UNCHANGED <<db, nextId, chat, prefMode, groqKey, loading, error, sending,
                   mode, ollamaAvailable, runs, nRuns, ignored, load, settings,
                   resets, nOther>>

\* ------------------------------------------------------ Load: fetchMessages
\* the continuation that keeps the entries the fetched history does not have
M_LoadRespMerges ==
    /\ load.pc = "resp"
    /\ IF load.ok
         THEN /\ messages' = load.data \o SelectSeq(messages,
                                 LAMBDA m : \A k \in DOMAIN load.data : load.data[k] # m)
              /\ error' = error
         ELSE messages' = messages /\ error' = ErrLoad
    /\ loading' = FALSE
    /\ load' = [pc |-> "done", ok |-> load.ok, data |-> <<>>]
    /\ UNCHANGED <<storeVars, chat, prefMode, groqKey, sending, mode,
                   ollamaAvailable, runs, nRuns, ignored, settings, resets, nOther>>

\* after the select: setMessages(data), or setError('Failed to load
\* messages'); finally setLoading(false)
LoadResp ==
    /\ load.pc = "resp"
    /\ IF load.ok
         THEN messages' = load.data /\ error' = error
         ELSE messages' = messages /\ error' = ErrLoad
    /\ loading' = FALSE
    /\ load' = [pc |-> "done", ok |-> load.ok, data |-> <<>>]
    /\ UNCHANGED <<storeVars, chat, prefMode, groqKey, sending, mode,
                   ollamaAvailable, runs, nRuns, ignored, settings, resets, nOther>>

\* ------------------------------------------------ Send: MessageInput.handleSend
SetRun(i, r) == runs' = [runs EXCEPT ![i] = r]

\* the prop without the sending guard
M_InputDisabledNoSending == mode = "offline" /\ ~ollamaAvailable

\* the prop without the availability guard
M_InputDisabledOnlySending == sending

\* the `disabled` prop MessageInput is rendered with
InputDisabled == sending \/ (mode = "offline" /\ ~ollamaAvailable)

\* the condition under which handleSend calls onSendMessage
SendAccepted(text, images) ==
    (~IsBlank(text) \/ Len(images) > 0) /\ ~InputDisabled

\* sendMessage up to its first await: setSending(true), setError(null), the
\* optimistic user placeholder, and the insert of the user message.
\* mode and ollamaAvailable are the values of the render the call closes over.
StartSend(i, text, images) ==
    /\ ~(IsBlank(text) /\ Len(images) = 0)
    /\ sending' = TRUE
    /\ error' = ""
    /\ messages' = Append(messages,
                          Row(NoId, "user", StoredContent(text, images), i, "tempUser"))
    /\ \E ok \in BOOLEAN :
         LET ret == StoreMessageInDB(ok, "user", text, images, i, "user") IN
         /\ Served(ret)
         /\ runs' = [runs EXCEPT ![i] =
                       [IdleRun EXCEPT !.pc = "userResp", !.content = text,
                                       !.images = images, !.mode = mode,
                                       !.avail = ollamaAvailable, !.ret = ret]]

HandleSend ==
    \E in \in Inputs :
        IF SendAccepted(in[1], in[2])
        THEN /\ nRuns < MaxSends
             /\ nRuns' = nRuns + 1
             /\ StartSend(nRuns + 1, in[1], in[2])
             /\ ignored' = FALSE
             /\ UNCHANGED <<chat, prefMode, groqKey, loading, mode, ollamaAvailable,
                            load, settings, resets, nOther>>
        ELSE /\ ignored' = TRUE
             /\ UNCHANGED <<storeVars, chat, prefMode, groqKey, messages, loading,
                            error, sending, mode, ollamaAvailable, runs, nRuns,
                            load, settings, resets, nOther>>

\* ------------------------------------------------------- Send: sendMessage
\* what a finished call keeps: its input and how it went
Finished(r) ==
    [IdleRun EXCEPT !.pc = "done", !.content = r.content, !.hist = r.hist,
                    !.fail = r.fail, !.did = r.did]

\* finally: setSending(false)
Finally(i, r) ==
    /\ sending' = FALSE
    /\ SetRun(i, Finished(r))

\* the outer catch and finally: setError(`Error sending message: ...`),
\* setSending(false); the list is left as it is
OuterCatch(i, why) ==
    /\ error' = ErrSend(MsgPersist)
    /\ messages' = messages
    /\ Finally(i, [runs[i] EXCEPT !.fail = why])
    /\ UNCHANGED storeVars

\* the inner catch that leaves the thinking placeholder in the list
M_InnerCatchKeepsThinking(i, prev, why, msg) ==
    /\ error' = ErrAi(msg)
    /\ messages' = prev
    /\ sending' = sending
    /\ \E ok \in BOOLEAN :
         LET ret == StoreMessageInDB(ok, "assistant", SorryText(msg), <<>>, i, "error")
         IN /\ Served(ret)
            /\ SetRun(i, [runs[i] EXCEPT !.pc = "errResp", !.ret = ret,
                             !.fail = why, !.msg = msg,
                             !.did = runs[i].did \cup {"thinking", "synthetic"}])

\* the inner catch up to its await: setError(`AI response error: ...`), the
\* thinking placeholder removed from prev, the insert of the error message
InnerCatch(i, prev, why, msg) ==
    /\ error' = ErrAi(msg)
    /\ messages' = SelectSeq(prev, LAMBDA m : ~IsTempAi(m, i))
    /\ sending' = sending
    /\ \E ok \in BOOLEAN :
         LET ret == StoreMessageInDB(ok, "assistant", SorryText(msg), <<>>, i, "error")
         IN /\ Served(ret)
            /\ SetRun(i, [runs[i] EXCEPT !.pc = "errResp", !.ret = ret,
                             !.fail = why, !.msg = msg,
                             !.did = runs[i].did \cup {"thinking", "synthetic"}])

\* the placeholder looked for by its content
M_ReplaceTempUserByContent(prev, i, real) ==
    [k \in DOMAIN prev |->
        IF prev[k].id = NoId /\ prev[k].role = "user" /\ prev[k].content = real.content
        THEN real ELSE prev[k]]

\* prev.map(msg => msg === tempUserMessage ? realUserMessage : msg)
ReplaceTempUser(prev, i, real) ==
    [k \in DOMAIN prev |-> IF IsTempUser(prev[k], i) THEN real ELSE prev[k]]

\* the continuation that does not look at the insert's error
M_UserRespIgnoresError(i) ==
    /\ runs[i].pc = "userResp"
    /\ messages' = ReplaceTempUser(messages, i, runs[i].ret)
    /\ \E ok \in BOOLEAN :
         SetRun(i, [runs[i] EXCEPT !.pc = "histResp", !.ret = NoRow,
                                   !.hist = IF ok THEN Len(db) ELSE -1])
    /\ UNCHANGED <<storeVars, error, sending>>
    /\ UNCHANGED <<chat, prefMode, groqKey, loading, mode, ollamaAvailable, nRuns,
                   ignored, load, settings, resets, nOther>>

\* after the user insert: throw on error; else replace the placeholder and
\* select the full history (hist: the number of messages fetched, -1 when
\* the select fails)
UserResp(i) ==
    /\ runs[i].pc = "userResp"
    /\ IF runs[i].ret = NoRow
         THEN OuterCatch(i, "user")
         ELSE /\ messages' = ReplaceTempUser(messages, i, runs[i].ret)
              /\ \E ok \in BOOLEAN :
                   SetRun(i, [runs[i] EXCEPT !.pc = "histResp", !.ret = NoRow,
                                             !.hist = IF ok THEN Len(db) ELSE -1])
              /\ UNCHANGED <<storeVars, error, sending>>
    /\ UNCHANGED <<chat, prefMode, groqKey, loading, mode, ollamaAvailable, nRuns,
                   ignored, load, settings, resets, nOther>>

\* the continuation with the history select inside the inner try
M_HistRespInnerTry(i) ==
    /\ runs[i].pc = "histResp"
    /\ IF runs[i].hist < 0
         THEN InnerCatch(i, messages, "history", MsgPersist)
         ELSE IF runs[i].mode = "online" /\ ~groqKey
         THEN InnerCatch(i, Append(messages, TempAi(i)), "config", MsgNoKey)
         ELSE IF runs[i].mode = "offline" /\ ~runs[i].avail
         THEN InnerCatch(i, Append(messages, TempAi(i)), "unavailable", MsgNoOllama)
         ELSE /\ messages' = Append(messages, TempAi(i))
              /\ SetRun(i, [runs[i] EXCEPT !.pc = "provider",
                              !.did = runs[i].did \cup {"thinking", "provider"}])
              /\ UNCHANGED <<storeVars, error, sending>>
    /\ UNCHANGED <<chat, prefMode, groqKey, loading, mode, ollamaAvailable, nRuns,
                   ignored, load, settings, resets, nOther>>

\* the continuation that calls the remote provider without looking at the key
M_HistRespNoKeyCheck(i) ==
    /\ runs[i].pc = "histResp"
    /\ IF runs[i].hist < 0
         THEN OuterCatch(i, "history")
         ELSE IF runs[i].mode = "offline" /\ ~runs[i].avail
         THEN InnerCatch(i, Append(messages, TempAi(i)), "unavailable", MsgNoOllama)
         ELSE /\ messages' = Append(messages, TempAi(i))
              /\ SetRun(i, [runs[i] EXCEPT !.pc = "provider",
                              !.did = runs[i].did \cup {"thinking", "provider"}])
              /\ UNCHANGED <<storeVars, error, sending>>
    /\ UNCHANGED <<chat, prefMode, groqKey, loading, mode, ollamaAvailable, nRuns,
                   ignored, load, settings, resets, nOther>>

\* the continuation that inserts the thinking placeholder before it looks at
\* the error of the history select
M_HistRespThinkingFirst(i) ==
    /\ runs[i].pc = "histResp"
    /\ IF runs[i].hist < 0
         THEN /\ error' = ErrSend(MsgPersist)
              /\ messages' = Append(messages, TempAi(i))
              /\ Finally(i, [runs[i] EXCEPT !.fail = "history"])
              /\ UNCHANGED storeVars
         ELSE IF runs[i].mode = "online" /\ ~groqKey
         THEN InnerCatch(i, Append(messages, TempAi(i)), "config", MsgNoKey)
         ELSE IF runs[i].mode = "offline" /\ ~runs[i].avail
         THEN InnerCatch(i, Append(messages, TempAi(i)), "unavailable", MsgNoOllama)
         ELSE /\ messages' = Append(messages, TempAi(i))
              /\ SetRun(i, [runs[i] EXCEPT !.pc = "provider",
                              !.did = runs[i].did \cup {"thinking", "provider"}])
              /\ UNCHANGED <<storeVars, error, sending>>
    /\ UNCHANGED <<chat, prefMode, groqKey, loading, mode, ollamaAvailable, nRuns,
                   ignored, load, settings, resets, nOther>>

\* after the history select: throw on error (outside the inner try); else the
\* thinking placeholder and, inside the inner try, the checks made before the
\* provider is called
HistResp(i) ==
    /\ runs[i].pc = "histResp"
    /\ IF runs[i].hist < 0
         THEN OuterCatch(i, "history")
         ELSE IF runs[i].mode = "online" /\ ~groqKey
         THEN InnerCatch(i, Append(messages, TempAi(i)), "config", MsgNoKey)
         ELSE IF runs[i].mode = "offline" /\ ~runs[i].avail
         THEN InnerCatch(i, Append(messages, TempAi(i)), "unavailable", MsgNoOllama)
         ELSE /\ messages' = Append(messages, TempAi(i))
              /\ SetRun(i, [runs[i] EXCEPT !.pc = "provider",
                              !.did = runs[i].did \cup {"thinking", "provider"}])
              /\ UNCHANGED <<storeVars, error, sending>>
    /\ UNCHANGED <<chat, prefMode, groqKey, loading, mode, ollamaAvailable, nRuns,
                   ignored, load, settings, resets, nOther>>

\* getGroqCompletion / getOllamaCompletion returns a reply or throws; on a
\* reply the thinking placeholder is removed and the reply inserted
ProviderResp(i) ==
    /\ runs[i].pc = "provider"
    /\ \/ \E r \in Replies, ok \in BOOLEAN :
            LET ret == StoreMessageInDB(ok, "assistant", r, <<>>, i, "reply") IN
            /\ messages' = SelectSeq(messages, LAMBDA m : ~IsTempAi(m, i))
            /\ Served(ret)
            /\ SetRun(i, [runs[i] EXCEPT !.pc = "aiResp", !.reply = r, !.ret = ret])
            /\ UNCHANGED <<error, sending>>
       \/ InnerCatch(i, messages, "provider",
                     IF runs[i].mode = "online" THEN MsgGroq ELSE MsgOllama)
    /\ UNCHANGED <<chat, prefMode, groqKey, loading, mode, ollamaAvailable, nRuns,
                   ignored, load, settings, resets, nOther>>

\* [...prev.filter(msg => msg !== tempAiMessage), realAiMessage]
SpliceAi(prev, i, real) ==
    Append(SelectSeq(prev, LAMBDA m : ~IsTempAi(m, i)), real)

\* the continuation that ends the Send without looking at the title
M_AiRespNoTitle(i) ==
    /\ runs[i].pc = "aiResp"
    /\ IF runs[i].ret = NoRow
         THEN InnerCatch(i, messages, "aiPersist", MsgPersist)
         ELSE /\ messages' = SpliceAi(messages, i, runs[i].ret)
              /\ error' = error
              /\ Finally(i, runs[i])
              /\ UNCHANGED storeVars
    /\ UNCHANGED <<chat, prefMode, groqKey, loading, mode, ollamaAvailable, nRuns,
                   ignored, load, settings, resets, nOther>>

\* after the assistant insert: throw on error (into the inner catch); else
\* splice the record in and, on a first exchange, select the chat's title
AiResp(i) ==
    /\ runs[i].pc = "aiResp"
    /\ IF runs[i].ret = NoRow
         THEN InnerCatch(i, messages, "aiPersist", MsgPersist)
         ELSE /\ messages' = SpliceAi(messages, i, runs[i].ret)
              /\ error' = error
              /\ IF runs[i].hist <= 2
                   THEN /\ \E ok \in BOOLEAN :
                             SetRun(i, [runs[i] EXCEPT !.pc = "titleResp",
                                 !.ret = NoRow,
                                 !.seen = IF ok THEN chat.title ELSE SelectFailed,
                                 !.fail = IF ok THEN "none" ELSE "titleSelect"])
                        /\ sending' = sending
                   ELSE Finally(i, runs[i])
              /\ UNCHANGED storeVars
    /\ UNCHANGED <<chat, prefMode, groqKey, loading, mode, ollamaAvailable, nRuns,
                   ignored, load, settings, resets, nOther>>

\* if (!chatError && chatData && chatData.title === 'New Chat'): the rename,
\* update({ title: newTitle }), whose outcome is not looked at; else the
\* Send is over
TitleResp(i) ==
    /\ runs[i].pc = "titleResp"
    /\ IF runs[i].seen = DefaultTitle
         THEN /\ \E ok \in BOOLEAN :
                   /\ chat' = IF ok
                              THEN [chat EXCEPT !.title = DeriveTitle(runs[i].content)]
                              ELSE chat
                   /\ SetRun(i, [runs[i] EXCEPT !.pc = "renameResp",
                                    !.fail = IF ok THEN "none" ELSE "rename",
                                    !.did = runs[i].did \cup {"rename"}])
              /\ sending' = sending
         ELSE /\ Finally(i, runs[i])
              /\ chat' = chat
    /\ UNCHANGED <<storeVars, prefMode, groqKey, messages, loading, error, mode,
                   ollamaAvailable, nRuns, ignored, load, settings, resets, nOther>>

RenameResp(i) ==
    /\ runs[i].pc = "renameResp"
    /\ Finally(i, runs[i])
    /\ UNCHANGED <<storeVars, chat, prefMode, groqKey, messages, loading, error,
                   mode, ollamaAvailable, nRuns, ignored, load, settings, resets,
                   nOther>>

\* if (errorMsgData && errorMsgData.length > 0)
\*     setMessages(prev => [...prev, errorMsgData[0]])
ErrResp(i) ==
    /\ runs[i].pc = "errResp"
    /\ messages' = IF runs[i].ret = NoRow THEN messages
                   ELSE Append(messages, runs[i].ret)
    /\ Finally(i, runs[i])
    /\ UNCHANGED <<storeVars, chat, prefMode, groqKey, loading, error, mode,
                   ollamaAvailable, nRuns, ignored, load, settings, resets, nOther>>

\* ------------------------------------------------------- Reset: resetChat
\* the user confirms: setLoading(true) and delete().eq('chat_id', chatId)
ResetStart(k) ==
    /\ resets[k] = "idle"
    /\ \A j \in ResetIds : j < k => resets[j] # "idle"
    /\ loading' = TRUE
    /\ \E ok \in BOOLEAN :
         /\ db' = IF ok THEN <<>> ELSE db
         /\ resets' = [resets EXCEPT ![k] = IF ok THEN "deleted" ELSE "refused"]
    /\ UNCHANGED <<nextId, events, chat, prefMode, groqKey, messages, error,
                   sending, mode, ollamaAvailable, runs, nRuns, ignored, load,
                   settings, nOther>>

\* the continuation that leaves the list as it is after a successful delete
M_ResetRespKeepsMessages(k) ==
    /\ resets[k] \in {"deleted", "refused"}
    /\ IF resets[k] = "deleted"
         THEN messages' = messages /\ error' = ""
         ELSE messages' = messages /\ error' = ErrReset
    /\ loading' = FALSE
    /\ resets' = [resets EXCEPT ![k] = IF resets[k] = "deleted" THEN "cleared"
                                       ELSE "failed"]
    /\ UNCHANGED <<storeVars, chat, prefMode, groqKey, sending, mode,
                   ollamaAvailable, runs, nRuns, ignored, load, settings, nOther>>

\* after the delete: setMessages([]), setError(null), or setError('Failed to
\* reset chat'); finally setLoading(false)
ResetResp(k) ==
    /\ resets[k] \in {"deleted", "refused"}
    /\ IF resets[k] = "deleted"
         THEN messages' = <<>> /\ error' = ""
         ELSE messages' = messages /\ error' = ErrReset
    /\ loading' = FALSE
    /\ resets' = [resets EXCEPT ![k] = IF resets[k] = "deleted" THEN "cleared"
                                       ELSE "failed"]
    /\ UNCHANGED <<storeVars, chat, prefMode, groqKey, sending, mode,
                   ollamaAvailable, runs, nRuns, ignored, load, settings, nOther>>

\* the mode switch without the check of the availability flag
M_ToggleModeNoGuard ==
    /\ mode' = IF mode = "online" THEN "offline" ELSE "online"
    /\ \E ok \in BOOLEAN :
         prefMode' = IF ok /\ prefMode # "none" THEN mode' ELSE prefMode
    /\ error' = error
    /\ UNCHANGED <<storeVars, chat, groqKey, messages, loading, sending,
                   ollamaAvailable, runs, nRuns, ignored, load, settings, resets,
                   nOther>>

\* ---------------------------------------------------- mode switch: toggleMode
\* A failed update of user_settings is logged and the in-memory mode stays
\* switched; without a settings row the update changes nothing.
ToggleMode ==
    /\ IF mode = "online" /\ ~ollamaAvailable
         THEN /\ error' = ErrMode
              /\ UNCHANGED <<mode, prefMode>>
         ELSE /\ mode' = IF mode = "online" THEN "offline" ELSE "online"
              /\ \E ok \in BOOLEAN :
                   prefMode' = IF ok /\ prefMode # "none" THEN mode' ELSE prefMode
              /\ error' = error
    /\ UNCHANGED <<storeVars, chat, groqKey, messages, loading, sending,
                   ollamaAvailable, runs, nRuns, ignored, load, settings, resets,
                   nOther>>

\* ------------------------------------------------------- fetchUserSettings
\* on an error: return; without a row: insert the default settings; with a
\* row: setMode(data.preferred_mode) and, if data.preferred_model is set,
\* setOllamaModel(data.preferred_model)
PreferredModels == {"", "mistral"}

SettingsResp ==
    /\ settings.pc = "resp"
    /\ IF ~settings.ok
         THEN UNCHANGED <<mode, prefMode, ollamaModel>>
         ELSE IF settings.data = "none"
         THEN /\ \E ok \in BOOLEAN :
                   prefMode' = IF ok /\ prefMode = "none" THEN "online" ELSE prefMode
              /\ UNCHANGED <<mode, ollamaModel>>
         ELSE /\ mode' = settings.data
              /\ prefMode' = prefMode
              /\ \E preferred_model \in PreferredModels :
                   ollamaModel' = IF preferred_model # "" THEN preferred_model
                                  ELSE ollamaModel
    /\ settings' = [pc |-> "done", ok |-> settings.ok, data |-> NoSettings]
    /\ UNCHANGED <<storeVars, chat, groqKey, messages, loading, error, sending,
                   ollamaAvailable, runs, nRuns, ignored, load, resets, nOther>>

\* ------------------------------------------- the title and the content codec
MaxText   == 33     \* length of the longest generated text
MaxImages == 2      \* images of one stored message

RECURSIVE Rep(_, _)
\* the text of n characters c
Rep(c, n) == IF n = 0 THEN "" ELSE c \o Rep(c, n - 1)

\* first messages: every length around TitleMax, and the text of the scenario
TitleTexts ==
    {Rep(c, n) : c \in {"a", "b", " "}, n \in 0..MaxText}
        \cup {"This is a very long opening message exceeding thirty characters"}

\* texts a user can type and strings a content column can hold
CodecTexts ==
    {"", "Hello", "say \"hi\"", "a\\b", "{", "x}", "{}", "{abc}", "[1]",
     "{\"a\":1}", "{\"text\":\"hi\"}", "{\"text\":\"\"}", "{\"text\":null}",
     "{ \"text\" : \"hi\" }", "{\"text\":\"hi\"} ", "{\"text\":\"hi\"",
     "{\"images\":[\"img1\"]}", "{\"text\":\"hi\",\"images\":[\"img1\"]}",
     "{\"text\":\"hi\",\"images\":\"img1\"}", "{\"text\":\"a\\\"b\"}"}

ImageData == {"img1", "data:image/png;base64,AA==", "a\"b"}

RECURSIVE SeqsUpTo(_, _)
\* the sequences over S of at most n elements
SeqsUpTo(S, n) ==
    IF n = 0 THEN {<<>>}
    ELSE LET shorter == SeqsUpTo(S, n - 1) IN
         shorter \cup {Append(q, x) : q \in shorter, x \in S}

\* the calls whose result is looked at
TitleArgs == {[fn |-> "title", text |-> t] : t \in TitleTexts}
StoreArgs ==
    {[fn |-> "store", text |-> t, images |-> im] :
        t \in CodecTexts, im \in SeqsUpTo(ImageData, MaxImages)}
ParseArgs == {[fn |-> "parse", content |-> c] : c \in CodecTexts}
ReplyArgs == {[fn |-> "reply", text |-> t] : t \in CodecTexts}

\* newTitle of sendMessage for the first message arg.text
CallDeriveTitle ==
    /\ arg.fn = "title" /\ out.fn = "none"
    /\ out' = [fn |-> "title", title |-> DeriveTitle(arg.text)]
    /\ UNCHANGED <<arg, sessionVars, monitorVars, composerVars, subscriptionVars, pageVars>>

\* a message is stored (storeMessageInDB builds the content column) and the
\* stored content is rendered (MessageList calls parseMessageContent on it)
CallStoreAndParse ==
    /\ arg.fn = "store" /\ out.fn = "none"
    /\ out' = [fn |-> "store",
               content |-> StoredContent(arg.text, arg.images),
               parsed |-> ParseMessageContent(StoredContent(arg.text, arg.images))]
    /\ UNCHANGED <<arg, sessionVars, monitorVars, composerVars, subscriptionVars, pageVars>>

\* parseMessageContent on a content column written by anyone
CallParse ==
    /\ arg.fn = "parse" /\ out.fn = "none"
    /\ out' = [fn |-> "parse", parsed |-> ParseMessageContent(arg.content)]
    /\ UNCHANGED <<arg, sessionVars, monitorVars, composerVars, subscriptionVars, pageVars>>

\* the reply of the provider is stored, storeMessageInDB('assistant',
\* aiResponse), and the stored content is rendered
CallPersistReply ==
    /\ arg.fn = "reply" /\ out.fn = "none"
    /\ out' = [fn |-> "reply",
               content |-> StoredContent(arg.text, <<>>),
               parsed |-> ParseMessageContent(StoredContent(arg.text, <<>>))]
    /\ UNCHANGED <<arg, sessionVars, monitorVars, composerVars, subscriptionVars, pageVars>>

\* ------------------------------------------------------ the provider clients
MaxHistory == 12    \* messages of the longest history handed to a client

ContextMax   == 10
DefaultGroqModel == "meta-llama/llama-4-scout-17b-16e-instruct"
DefaultImagePrompt == "What's in this image?"
ErrGroqKey    == "Groq Chat API key is missing"
ErrGroqStatus == "Error calling Groq API: 500"
ErrOllamaDown ==
    "Ollama server not available or not running at http://localhost:11434. Please make sure Ollama is installed and running."
ErrOllamaStatus == "Ollama error: 500"
ErrTypeError  == "TypeError: Cannot read properties of undefined (reading 'content')"

\* s.includes(sub)
Includes(s, sub) == \E q \in 1..(Len(s) + 1) : HasWord(s, q, sub)

\* modelSupportsGroqVision() for the configured model
ModelSupportsGroqVision(model) ==
    \E m \in {"meta-llama/llama-4-scout-17b-16e-instruct",
               "meta-llama/llama-4-maverick-17b-128e-instruct",
               "llama-4-scout", "llama-4-maverick"} : Includes(model, m)

\* modelSupportsVision(modelName)
ModelSupportsVision(modelName) ==
    Includes(modelName, "llama-4-scout") \/ Includes(modelName, "llama-4-maverick")

\* messages.slice(-n)
LastN(msgs, n) ==
    SubSeq(msgs, IF Len(msgs) > n THEN Len(msgs) - n + 1 ELSE 1, Len(msgs))

\* a message of a request: its content is a string, or, with images, the
\* text part followed by one image part for each image
ApiMessage(role, content, imageData) ==
    [role |-> role, content |-> content, images |-> imageData]

\* createImageMessage(text, images)
CreateImageMessage(text, imageData) ==
    ApiMessage("user", IF text = "" THEN DefaultImagePrompt ELSE text, imageData)

\* what a call of a client comes to: the request it sent, if it sent one, and
\* the reply or the error it threw
NoRequest == [model |-> "", messages |-> <<>>]
Threw(msg) == [sent |-> FALSE, request |-> NoRequest, reply |-> "", error |-> msg]
Answered(request, resp, failure) ==
    [sent |-> TRUE, request |-> request,
     reply |-> IF resp = "ok" THEN "Hi there" ELSE "",
     error |-> IF resp = "ok" THEN "" ELSE failure]

\* the client that gives every message of the window the image parts
M_GetGroqCompletionImagesOnAll(msgs, imageData, key, envModel, resp) ==
    IF ~key THEN Threw(ErrGroqKey)
    ELSE LET model == IF envModel = "" THEN DefaultGroqModel ELSE envModel
             recentMessages == LastN(msgs, ContextMax)
         IN Answered([model |-> model,
                      messages |-> [k \in 1..Len(recentMessages) |->
                          ApiMessage(recentMessages[k].role,
                                     recentMessages[k].content, imageData)]],
                     resp, ErrGroqStatus)

\* getGroqCompletion(messages, imageData) with the environment (the key, the
\* configured model) and the response of the API
GetGroqCompletion(msgs, imageData, key, envModel, resp) ==
    IF ~key THEN Threw(ErrGroqKey)
    ELSE LET model == IF envModel = "" THEN DefaultGroqModel ELSE envModel IN
         IF Len(imageData) > 0
         THEN LET recentMessages == LastN(msgs, ContextMax) IN
              IF recentMessages = <<>> THEN Threw(ErrTypeError)
              ELSE LET last == recentMessages[Len(recentMessages)]
                       apiMessages ==
                           [k \in 1..Len(recentMessages) |->
                              IF k < Len(recentMessages)
                              THEN ApiMessage(recentMessages[k].role,
                                              recentMessages[k].content, <<>>)
                              ELSE ApiMessage(last.role,
                                              IF last.content = ""
                                              THEN DefaultImagePrompt
                                              ELSE last.content, imageData)]
                   IN Answered([model |-> model, messages |-> apiMessages],
                               resp, ErrGroqStatus)
         ELSE Answered([model |-> model,
                        messages |-> [k \in 1..Len(msgs) |->
                            ApiMessage(msgs[k].role, msgs[k].content, <<>>)]],
                       resp, ErrGroqStatus)

\* the model check of getOllamaCompletion against the answer of /api/tags:
\* the model to use, or "" when the check throws
OllamaModelFor(model, tags) ==
    IF ~tags.ok \/ ~tags.hasModels THEN ""
    ELSE IF \E k \in DOMAIN tags.models : tags.models[k] = model THEN model
    ELSE IF Len(tags.models) > 0 THEN tags.models[1]
    ELSE ""

\* getOllamaCompletion(messages, model, imageData) with the answer of
\* /api/tags and the response of /api/chat
GetOllamaCompletion(msgs, requested, imageData, tags, resp) ==
    LET model == OllamaModelFor(requested, tags) IN
    IF model = "" THEN Threw(ErrOllamaDown)
    ELSE LET recentMessages == LastN(msgs, ContextMax)
             cleaned(k) == ApiMessage(IF recentMessages[k].role = "assistant"
                                      THEN "assistant" ELSE "user",
                                      recentMessages[k].content, <<>>)
         IN IF ModelSupportsVision(model) /\ Len(imageData) > 0
            THEN IF recentMessages = <<>> THEN Threw(ErrTypeError)
                 ELSE Answered(
                        [model |-> model,
                         messages |-> [k \in 1..Len(recentMessages) |->
                            IF k < Len(recentMessages) THEN cleaned(k)
                            ELSE CreateImageMessage(
                                   recentMessages[Len(recentMessages)].content,
                                   imageData)]],
                        resp, ErrOllamaStatus)
            ELSE Answered([model |-> model,
                           messages |-> [k \in 1..Len(recentMessages) |-> cleaned(k)]],
                          resp, ErrOllamaStatus)

\* a history of n messages that ends with the user's message
History(n) ==
    [k \in 1..n |-> [role |-> IF (n - k) % 2 = 0 THEN "user" ELSE "assistant",
                     content |-> "m" \o ToString(k)]]

ClientImages == {<<>>, <<"img1">>, <<"img1", "img2">>}

\* VITE_GROQ_CHAT_MODEL: not set, a model without vision, a model with vision
GroqEnvModels == {"", "llama-3.3-70b-versatile", "llama-4-maverick"}

OllamaModels == {"gemma3:4b-it-q4_K_M", "llama-4-scout"}

\* answers of /api/tags: unreachable, without a models field, and lists of
\* installed models
TagsAnswers ==
    {[ok |-> FALSE, hasModels |-> FALSE, models |-> <<>>],
     [ok |-> TRUE, hasModels |-> FALSE, models |-> <<>>]}
      \cup {[ok |-> TRUE, hasModels |-> TRUE, models |-> m] :
              m \in {<<>>, <<"llama3">>, <<"llama-4-scout", "llama3">>,
                     <<"llama3", "gemma3:4b-it-q4_K_M">>}}

Responses == {"ok", "error"}

GroqArgs ==
    {[fn |-> "groq", n |-> n, images |-> im, key |-> key, model |-> m, resp |-> r] :
        n \in 0..MaxHistory, im \in ClientImages, key \in BOOLEAN,
        m \in GroqEnvModels, r \in Responses}

OllamaArgs ==
    {[fn |-> "ollama", n |-> n, images |-> im, model |-> m, tags |-> t, resp |-> r] :
        n \in 0..MaxHistory, im \in ClientImages, m \in OllamaModels,
        t \in TagsAnswers, r \in Responses}

CallGroq ==
    /\ arg.fn = "groq" /\ out.fn = "none"
    /\ out' = [fn |-> "groq",
               call |-> GetGroqCompletion(History(arg.n), arg.images, arg.key,
                                          arg.model, arg.resp)]
    /\ UNCHANGED <<arg, sessionVars, monitorVars, composerVars, subscriptionVars, pageVars>>

CallOllama ==
    /\ arg.fn = "ollama" /\ out.fn = "none"
    /\ out' = [fn |-> "ollama",
               call |-> GetOllamaCompletion(History(arg.n), arg.model, arg.images,
                                            arg.tags, arg.resp)]
    /\ UNCHANGED <<arg, sessionVars, monitorVars, composerVars, subscriptionVars, pageVars>>

\* ------------------------------------- the effect on [chatId, user]
MaxChannels == 4    \* channels created in one session

ChatIds == {1, 2}
Unmounted == 0

\* the subscription left unsubscribed
M_UnsubscribeNothing(chs, ref) == chs

\* if (subscriptionRef.current) subscriptionRef.current.unsubscribe()
Unsubscribe(chs, ref) == IF ref # 0 THEN chs \ {ref} ELSE chs

\* chatId or user changes: the cleanup of the previous run of the effect,
\* then the effect: fetchMessages is called (setLoading(true),
\* setError(null), the select), the previous subscription is unsubscribed,
\* the channel of the chat is created and subscribed and stored in
\* subscriptionRef, fetchUserSettings is called.
\* The chat is switched once the fetches of the previous run have returned;
\* where this action is taken no chat has messages.
ChatEffect(c) ==
    /\ chatId # Unmounted
    /\ load.pc = "done" /\ settings.pc = "done"
    /\ nChannels < MaxChannels
    /\ chatId' = c
    /\ nChannels' = nChannels + 1
    /\ channels' = Unsubscribe(Unsubscribe(channels, subscriptionRef),
                               subscriptionRef) \cup {nChannels + 1}
    /\ subscriptionRef' = nChannels + 1
    /\ loading' = TRUE
    /\ error' = ""
    /\ \E ok \in BOOLEAN :
         load' = [pc |-> "resp", ok |-> ok, data |-> IF ok THEN db ELSE <<>>]
    /\ \E ok \in BOOLEAN :
         settings' = [pc |-> "resp", ok |-> ok,
                      data |-> IF ok THEN prefMode ELSE NoSettings]
    /\ UNCHANGED <<storeVars, chat, prefMode, groqKey, messages, sending, mode,
                   ollamaAvailable, runs, nRuns, ignored, resets, nOther>>
    /\ UNCHANGED <<monitorVars, pureVars, composerVars, pageVars>>

\* the component is unmounted: the cleanup of the last run of the effect
Unmount ==
    /\ chatId # Unmounted
    /\ chatId' = Unmounted
    /\ channels' = Unsubscribe(channels, subscriptionRef)
    /\ UNCHANGED <<subscriptionRef, nChannels>>
    /\ UNCHANGED <<sessionVars, monitorVars, pureVars, composerVars, pageVars>>

\* ------------------------------------------- availability probe: checkOllama
MaxProbes == 1      \* checkOllama calls in flight at one time

\* answers of /api/tags to the probe: unreachable or not ok, and lists of
\* installed models
ProbeTags ==
    {[ok |-> FALSE, hasModels |-> FALSE, models |-> <<>>]}
      \cup {[ok |-> TRUE, hasModels |-> TRUE, models |-> m] :
              m \in {<<>>, <<DefaultOllamaModel>>, <<"llama3", "mistral">>}}

\* isOllamaRunning(): response.ok, false when the fetch throws
IsOllamaRunning(tags) == tags.ok

\* getOllamaModels(): the names of data.models, [] without the field, on a
\* response that is not ok and when the fetch throws
GetOllamaModels(tags) ==
    IF tags.ok /\ tags.hasModels THEN tags.models ELSE <<>>

ProbesInFlight == IF probe.pc = "idle" THEN 0 ELSE 1

\* the timer that is not cleared by the cleanup of the effect
M_ProbeStartAfterTeardown ==
    /\ ProbesInFlight < MaxProbes
    /\ probe' = [pc |-> "running", model |-> ollamaModel]
    /\ UNCHANGED <<ollamaModel, availableModels>>
    /\ UNCHANGED <<sessionVars, pureVars, composerVars, subscriptionVars, pageVars>>

\* the effect on [ollamaModel] runs, or its interval fires: checkOllama is
\* called and awaits isOllamaRunning. The call closes over the ollamaModel
\* of the render the effect ran in. The cleanup of the effect clears the
\* interval, so nothing is called once the component is unmounted.
ProbeStart ==
    /\ chatId # Unmounted
    /\ ProbesInFlight < MaxProbes
    /\ probe' = [pc |-> "running", model |-> ollamaModel]
    /\ UNCHANGED <<ollamaModel, availableModels>>
    /\ UNCHANGED <<sessionVars, pureVars, composerVars, subscriptionVars, pageVars>>

\* the unsuccessful probe that puts the session back online
M_ProbeRunningSwitchesMode ==
    /\ probe.pc = "running"
    /\ \E tags \in ProbeTags :
         LET running == IsOllamaRunning(tags) IN
         /\ ollamaAvailable' = running
         /\ mode' = IF running THEN mode ELSE "online"
         /\ probe' = IF running THEN [probe EXCEPT !.pc = "models"] ELSE IdleProbe
    /\ UNCHANGED <<ollamaModel, availableModels>>
    /\ UNCHANGED <<storeVars, chat, prefMode, groqKey, messages, loading, error,
                   sending, runs, nRuns, ignored, load, settings, resets,
                   nOther>>
    /\ UNCHANGED <<pureVars, composerVars, subscriptionVars, pageVars>>

\* the unsuccessful probe that surfaces an error
M_ProbeRunningRaises ==
    /\ probe.pc = "running"
    /\ \E tags \in ProbeTags :
         LET running == IsOllamaRunning(tags) IN
         /\ ollamaAvailable' = running
         /\ error' = IF running THEN error ELSE ErrMode
         /\ probe' = IF running THEN [probe EXCEPT !.pc = "models"] ELSE IdleProbe
    /\ UNCHANGED <<ollamaModel, availableModels>>
    /\ UNCHANGED <<storeVars, chat, prefMode, groqKey, messages, loading, mode,
                   sending, runs, nRuns, ignored, load, settings, resets,
                   nOther>>
    /\ UNCHANGED <<pureVars, composerVars, subscriptionVars, pageVars>>

\* after isOllamaRunning: setOllamaAvailable(running); if running,
\* getOllamaModels is awaited, else the call is over
ProbeRunning ==
    /\ probe.pc = "running"
    /\ \E tags \in ProbeTags :
         LET running == IsOllamaRunning(tags) IN
         /\ ollamaAvailable' = running
         /\ probe' = IF running THEN [probe EXCEPT !.pc = "models"] ELSE IdleProbe
    /\ UNCHANGED <<ollamaModel, availableModels>>
    /\ UNCHANGED <<storeVars, chat, prefMode, groqKey, messages, loading, error,
                   sending, mode, runs, nRuns, ignored, load, settings, resets,
                   nOther>>
    /\ UNCHANGED <<pureVars, composerVars, subscriptionVars, pageVars>>

\* models.length > 0 && !models.includes(ollamaModel), with the ollamaModel
\* the call closed over
Reselects(models, model) ==
    Len(models) > 0 /\ ~\E k \in DOMAIN models : models[k] = model

\* after getOllamaModels: setAvailableModels(models) and, if the list is not
\* empty and does not include the model, setOllamaModel(models[0])
ProbeModels ==
    /\ probe.pc = "models"
    /\ \E tags \in ProbeTags :
         LET models == GetOllamaModels(tags) IN
         /\ availableModels' = models
         /\ ollamaModel' = IF Reselects(models, probe.model) THEN models[1]
                            ELSE ollamaModel
    /\ probe' = IdleProbe
    /\ UNCHANGED <<sessionVars, pureVars, composerVars, subscriptionVars, pageVars>>

\* ------------------------------------- MessageInput: the queue of images
MaxUploads       == 3    \* processFile calls in flight at one time
MaxComposerSends == 1    \* Sends accepted from the composer

MaxQueue == 5

Files == {"img1"}
ComposerTexts == {"Hello", " "}

\* the disabled prop of ImageUploader, which is rendered when
\* shouldEnableImageUpload() holds
UploaderDisabled == InputDisabled \/ Len(imageQueue) >= MaxQueue

\* a file is picked whatever the length of the queue
M_StartUploadNoLimit ==
    /\ mode = "online" /\ ~InputDisabled
    /\ BagCardinality(uploads) < MaxUploads
    /\ \E f \in Files :
         uploads' = uploads (+) SetToBag({[images |-> imageQueue, file |-> f]})
    /\ UNCHANGED <<imageQueue, sessionVars, monitorVars, pureVars, subscriptionVars, pageVars>>

\* a file is dropped on the uploader (handleDrop: if (disabled) return) or
\* picked: processFile starts; the onImageUpload it will call is the
\* handleImageUpload of this render, which closes over this render's images
StartUpload ==
    /\ mode = "online" /\ ~UploaderDisabled
    /\ BagCardinality(uploads) < MaxUploads
    /\ \E f \in Files :
         uploads' = uploads (+) SetToBag({[images |-> imageQueue, file |-> f]})
    /\ UNCHANGED <<imageQueue, sessionVars, monitorVars, pureVars, subscriptionVars, pageVars>>

\* processFile gets to onImageUpload(dataUrl):
\* handleImageUpload does setImages([...images, dataUrl])
CompleteUpload ==
    \E u \in BagToSet(uploads) :
        /\ imageQueue' = Append(u.images, u.file)
        /\ uploads' = uploads (-) SetToBag({u})
        /\ UNCHANGED <<sessionVars, monitorVars, pureVars, subscriptionVars, pageVars>>

\* processFile ends without calling onImageUpload: the file is not a valid
\* image, or compressing or reading it fails
FailUpload ==
    \E u \in BagToSet(uploads) :
        /\ uploads' = uploads (-) SetToBag({u})
        /\ UNCHANGED <<imageQueue, sessionVars, monitorVars, pureVars, subscriptionVars, pageVars>>

\* removeImage(index)
RemoveImage ==
    \E index \in DOMAIN imageQueue :
        /\ imageQueue' = SubSeq(imageQueue, 1, index - 1)
                            \o SubSeq(imageQueue, index + 1, Len(imageQueue))
        /\ UNCHANGED <<uploads, sessionVars, monitorVars, pureVars, subscriptionVars, pageVars>>

\* handleSend on what is composed: onSendMessage(message, images),
\* setMessage(''), setImages([])
ComposerSend ==
    \E text \in ComposerTexts :
        IF SendAccepted(text, imageQueue)
        THEN /\ nRuns < MaxComposerSends
             /\ nRuns' = nRuns + 1
             /\ StartSend(nRuns + 1, text, imageQueue)
             /\ ignored' = FALSE
             /\ imageQueue' = <<>>
             /\ UNCHANGED <<chat, prefMode, groqKey, loading, mode, ollamaAvailable,
                            load, settings, resets, nOther>>
             /\ UNCHANGED <<uploads, monitorVars, pureVars, subscriptionVars, pageVars>>
        ELSE /\ ignored' = TRUE
             /\ UNCHANGED <<storeVars, chat, prefMode, groqKey, messages, loading,
                            error, sending, mode, ollamaAvailable, runs, nRuns,
                            load, settings, resets, nOther>>
             /\ UNCHANGED <<imageQueue, uploads, monitorVars, pureVars, subscriptionVars, pageVars>>

\* ------------------------------------------------------------------ ChatPage
MaxChatRows   == 3     \* rows of the chats table
MaxChatEvents == 2     \* change-events of the chats table not yet delivered
MaxFetches    == 1     \* fetchChats calls in flight
MaxDeletes    == 1     \* deleteChat calls in flight

ErrLoadChats  == "Failed to load chats"
ErrCreateChat == "Failed to create new chat"
ErrDeleteChat == "Failed to delete chat"

\* the chats of the render the mount effect ran in: fetchChats calls the
\* createNewChat of that render
EffectChats == <<>>

RemoveAt(list, k) == SubSeq(list, 1, k - 1) \o SubSeq(list, k + 1, Len(list))

otherVars == <<sessionVars, monitorVars, pureVars, composerVars, subscriptionVars>>

\* fetchChats up to its await: setLoading(true), setError(null), the select
\* of the active rows
FetchChats ==
    /\ Len(fetchCalls) < MaxFetches
    /\ pageLoading' = TRUE
    /\ pageError' = ""
    /\ \E ok \in BOOLEAN :
         fetchCalls' = Append(fetchCalls,
                              [ok |-> ok, data |-> ActiveChats(chatsTable)])

\* createNewChat up to its await: the insert of a row titled 'New Chat'.
\* The call closes over the chats of the render it was created in.
CreateNewChat(closure, by) ==
    /\ Len(chatsTable) < MaxChatRows
    /\ chatsEvents < MaxChatEvents
    /\ \E ok \in BOOLEAN :
         LET id == Len(chatsTable) + 1 IN
         /\ chatsTable' = IF ok THEN Append(chatsTable, ChatRow(id, by))
                          ELSE chatsTable
         /\ chatsEvents' = IF ok THEN chatsEvents + 1 ELSE chatsEvents
         /\ createCalls' = Append(createCalls,
                                  [ret |-> IF ok THEN id ELSE NoChat,
                                   chats |-> closure])

\* a change-event of the chats table is delivered: fetchChats()
ChatsEvent ==
    /\ chatsEvents > 0
    /\ chatsEvents' = chatsEvents - 1
    /\ FetchChats
    /\ UNCHANGED <<chatsTable, chats, activeChat, createCalls, deleteCalls>>
    /\ UNCHANGED otherVars

\* the select of a fetchChats call returns: on an error setError; else
\* setChats(data) and either setActiveChat(data[0].id) or createNewChat();
\* finally setLoading(false)
FetchResp(k) ==
    /\ k \in DOMAIN fetchCalls
    /\ fetchCalls' = RemoveAt(fetchCalls, k)
    /\ pageLoading' = FALSE
    /\ IF ~fetchCalls[k].ok
         THEN /\ pageError' = ErrLoadChats
              /\ UNCHANGED <<chatsTable, chatsEvents, chats, activeChat, createCalls>>
         ELSE /\ chats' = fetchCalls[k].data
              /\ pageError' = pageError
              /\ IF fetchCalls[k].data # <<>>
                   THEN /\ activeChat' = fetchCalls[k].data[1]
                        /\ UNCHANGED <<chatsTable, chatsEvents, createCalls>>
                   ELSE /\ CreateNewChat(EffectChats, "fetch")
                        /\ activeChat' = activeChat
    /\ UNCHANGED deleteCalls
    /\ UNCHANGED otherVars

\* the New Chat button: createNewChat()
NewChat ==
    /\ createCalls = <<>>
    /\ CreateNewChat(chats, "user")
    /\ UNCHANGED <<chats, activeChat, pageLoading, pageError, fetchCalls, deleteCalls>>
    /\ UNCHANGED otherVars

\* the insert of a createNewChat call returns: on an error setError; else
\* setChats([newChat, ...chats]) and setActiveChat(newChat.id)
CreateResp(k) ==
    /\ k \in DOMAIN createCalls
    /\ createCalls' = RemoveAt(createCalls, k)
    /\ IF createCalls[k].ret = NoChat
         THEN /\ pageError' = ErrCreateChat
              /\ UNCHANGED <<chats, activeChat>>
         ELSE /\ chats' = <<createCalls[k].ret>> \o createCalls[k].chats
              /\ activeChat' = createCalls[k].ret
              /\ pageError' = pageError
    /\ UNCHANGED <<chatsTable, chatsEvents, pageLoading, fetchCalls, deleteCalls>>
    /\ UNCHANGED otherVars

\* the delete button of a listed chat, confirmed: the update of is_active
\* to false. The list is rendered when loading is false.
DeleteChat(c) ==
    /\ ~pageLoading
    /\ c \in Range(chats)
    /\ Len(deleteCalls) < MaxDeletes
    /\ chatsEvents < MaxChatEvents
    /\ \E ok \in BOOLEAN :
         /\ chatsTable' = IF ok THEN [chatsTable EXCEPT ![c].is_active = FALSE]
                          ELSE chatsTable
         /\ chatsEvents' = IF ok THEN chatsEvents + 1 ELSE chatsEvents
         /\ deleteCalls' = Append(deleteCalls,
                                  [chatId |-> c, ok |-> ok, chats |-> chats,
                                   activeChat |-> activeChat])
    /\ UNCHANGED <<chats, activeChat, pageLoading, pageError, fetchCalls, createCalls>>
    /\ UNCHANGED otherVars

\* the update of a deleteChat call returns: on an error setError; else
\* setChats without the chat and, if it was the active one, the first of the
\* remaining chats becomes active or, without one, createNewChat()
DeleteResp(k) ==
    /\ k \in DOMAIN deleteCalls
    /\ deleteCalls' = RemoveAt(deleteCalls, k)
    /\ LET call == deleteCalls[k]
           remainingChats == SelectSeq(call.chats, LAMBDA id : id # call.chatId)
       IN IF ~call.ok
            THEN /\ pageError' = ErrDeleteChat
                 /\ UNCHANGED <<chatsTable, chatsEvents, chats, activeChat, createCalls>>
            ELSE /\ chats' = remainingChats
                 /\ pageError' = pageError
                 /\ IF call.activeChat # call.chatId
                      THEN UNCHANGED <<chatsTable, chatsEvents, activeChat, createCalls>>
                      ELSE IF remainingChats # <<>>
                      THEN /\ activeChat' = remainingChats[1]
                           /\ UNCHANGED <<chatsTable, chatsEvents, createCalls>>
                      ELSE /\ activeChat' = NoChat
                           /\ CreateNewChat(call.chats, "delete")
    /\ UNCHANGED <<pageLoading, fetchCalls>>
    /\ UNCHANGED otherVars

\* handleChatSelection(chatId)
HandleChatSelection(c) ==
    /\ ~pageLoading
    /\ c \in Range(chats)
    /\ activeChat' = c
    /\ UNCHANGED <<chatsTable, chatsEvents, chats, pageLoading, pageError,
                   fetchCalls, createCalls, deleteCalls>>
    /\ UNCHANGED otherVars

ChatRowIds == 1..MaxChatRows

NextPage ==
    \/ ChatsEvent
    \/ \E k \in 1..MaxFetches : FetchResp(k)
    \/ NewChat
    \/ \E k \in ChatRowIds : CreateResp(k)
    \/ \E c \in ChatRowIds : DeleteChat(c)
    \/ \E k \in 1..MaxDeletes : DeleteResp(k)
    \/ \E c \in ChatRowIds : HandleChatSelection(c)

\* ------------------------------------------------------------ specification
SendStep(i) ==
    \/ UserResp(i)
    \/ HistResp(i)
    \/ ProviderResp(i)
    \/ AiResp(i)
    \/ TitleResp(i)
    \/ RenameResp(i)
    \/ ErrResp(i)

\* the steps of the session leave the rest as it is
Quiet == UNCHANGED <<monitorVars, pureVars, composerVars, subscriptionVars, pageVars>>

\* what fetchUserSettings leaves as it is outside the session's variables
Hush == UNCHANGED <<availableModels, probe, pureVars, composerVars, subscriptionVars, pageVars>>

NextSession ==
    \/ HandleSend
    \/ \E i \in RunIds : SendStep(i)
    \/ DeliverEvent
    \/ OtherInsert
    \/ LoadResp
    \/ \E k \in ResetIds : ResetStart(k) \/ ResetResp(k)
    \/ ToggleMode

Next ==
    \/ NextSession /\ Quiet
    \/ SettingsResp /\ Hush
    \/ ProbeStart \/ ProbeRunning \/ ProbeModels
    \/ StartUpload \/ CompleteUpload \/ FailUpload \/ RemoveImage \/ ComposerSend
    \/ \E c \in ChatIds : ChatEffect(c)
    \/ Unmount
    \/ CallDeriveTitle \/ CallStoreAndParse \/ CallParse \/ CallPersistReply
    \/ CallGroq \/ CallOllama
    \/ NextPage

Spec == Init /\ [][Next]_vars

\* The Send pipeline with its change-events and a second writer. Load and
\* the settings fetch stay pending, the mode stays online.
InitSend == Init /\ prefMode = "none" /\ settings.ok /\ load.ok

NextSend ==
    /\ \/ HandleSend
       \/ \E i \in RunIds : SendStep(i)
       \/ DeliverEvent
       \/ OtherInsert
    /\ Quiet

SpecSend == InitSend /\ [][NextSend]_vars

\* One Send with the mode switch, the availability probe and the settings
\* fetch. Load stays pending, the settings row names no model and the
\* server lists none.
MaxModeSends == 1

InitMode == Init /\ load.ok /\ db = <<>>

NextMode ==
    \/ /\ \/ HandleSend /\ nRuns' <= MaxModeSends
          \/ \E i \in RunIds : SendStep(i)
          \/ DeliverEvent
          \/ ToggleMode
          \/ SettingsResp
       /\ Quiet
    \/ /\ ProbeStart \/ ProbeRunning \/ ProbeModels
       /\ UNCHANGED <<ollamaModel, availableModels>>

SpecMode == InitMode /\ [][NextMode]_vars

\* One Send with Load, Reset and a second writer. The settings fetch stays
\* pending, the mode stays online.
MaxResetSends == 1

InitReset == Init /\ prefMode = "none" /\ settings.ok /\ groqKey

NextReset ==
    /\ \/ HandleSend /\ nRuns' <= MaxResetSends
       \/ \E i \in RunIds : SendStep(i)
       \/ DeliverEvent
       \/ OtherInsert
       \/ LoadResp
       \/ \E k \in ResetIds : ResetStart(k) \/ ResetResp(k)
    /\ Quiet

SpecReset == InitReset /\ [][NextReset]_vars

\* The Send pipeline under the scheduling the code relies on: every awaited
\* call returns, so the continuation of a pending call is eventually run.
FairSend ==
    /\ InitSend
    /\ [][NextSend]_vars
    /\ \A i \in RunIds : WF_vars(SendStep(i) /\ Quiet)

\* the "Ollama not detected" notice and the input's placeholder text are
\* rendered from the mode and the availability flag
OllamaNotice == mode = "offline" /\ ~ollamaAvailable

\* a session in which nothing happens: the store is empty and both fetches
\* of the mount effect are pending
InitIdle ==
    /\ InitSession
    /\ db = <<>> /\ prefMode = "none" /\ groqKey /\ load.ok /\ settings.ok

\* The title derivation and the content codec, each called once on one of
\* the arguments.
InitCodec ==
    /\ InitIdle /\ InitMonitor /\ InitComposer /\ InitSubscription /\ InitPage
    /\ arg \in TitleArgs \cup StoreArgs \cup ParseArgs \cup ReplyArgs
    /\ out = NoOut

NextCodec ==
    \/ CallDeriveTitle
    \/ CallStoreAndParse
    \/ CallParse
    \/ CallPersistReply

SpecCodec == InitCodec /\ [][NextCodec]_vars

\* The two provider clients, each called once on one of the arguments.
InitClients ==
    /\ InitIdle /\ InitMonitor /\ InitComposer /\ InitSubscription /\ InitPage
    /\ arg \in GroqArgs \cup OllamaArgs
    /\ out = NoOut

NextClients == CallGroq \/ CallOllama

SpecClients == InitClients /\ [][NextClients]_vars

\* The effect on [chatId, user] with the two fetches it starts.
InitSubs == InitIdle /\ InitMonitor /\ InitPure /\ InitComposer /\ InitSubscription /\ InitPage

NextSubs ==
    \/ \E c \in ChatIds : ChatEffect(c)
    \/ Unmount
    \/ LoadResp /\ UNCHANGED <<monitorVars, pureVars, composerVars, subscriptionVars, pageVars>>
    \/ SettingsResp /\ UNCHANGED <<monitorVars, pureVars, composerVars, subscriptionVars, pageVars>>

SpecSubs == InitSubs /\ [][NextSubs]_vars

\* The composer with its uploads and one Send. Load and the settings fetch
\* stay pending, the mode stays online.
InitComposing ==
    InitIdle /\ InitMonitor /\ InitPure /\ InitComposer /\ InitSubscription /\ InitPage

NextComposing ==
    \/ StartUpload
    \/ CompleteUpload
    \/ FailUpload
    \/ RemoveImage
    \/ ComposerSend
    \/ \E i \in RunIds : SendStep(i) /\ Quiet

SpecComposing == InitComposing /\ [][NextComposing]_vars

\* Sends and Resets of one conversation, one after the other or interleaved.
\* Load and the settings fetch stay pending, the mode stays online, the
\* change-events stay queued.
InitTitle == InitIdle /\ InitMonitor /\ InitPure /\ InitComposer /\ InitSubscription /\ InitPage

NextTitle ==
    /\ \/ HandleSend
       \/ \E i \in RunIds : SendStep(i)
       \/ \E k \in ResetIds : ResetStart(k) \/ ResetResp(k)
    /\ Quiet

SpecTitle == InitTitle /\ [][NextTitle]_vars

\* ---------------------------------------------------------------- notions
Active(i) == runs[i].pc \notin {"idle", "done"}

\* the identifiers of the persisted entries of a list
IdsOf(list) == {list[k].id : k \in DOMAIN list} \ {NoId}

\* the positions of a list that hold a thinking placeholder
ThinkingAt(list) == {k \in DOMAIN list : list[k].kind = "tempAi"}

\* the positions of a list that hold a user placeholder
TempUserAt(list) == {k \in DOMAIN list : list[k].kind = "tempUser"}

\* the rows call i has persisted, of one kind
RowsBy(i, kind) == {k \in DOMAIN db : db[k].by = i /\ db[k].kind = kind}

\* the user rows this session's Sends have persisted
SelfUserRows(table) == {m \in Range(table) : m.kind = "user"}

\* the steps in which call i ends
Finishes(i) == runs[i].pc # "done" /\ runs'[i].pc = "done"

\* ------------------------------------------------------------------ claims

\* C1: in every reachable state no two entries of the in-memory sequence
\* share an identifier, whatever the order of a self-originated insert's
\* response and the change-event for the same row.
C1_NoDuplicateIds ==
    \A j, k \in DOMAIN messages :
        (j # k /\ messages[j].id # NoId) => messages[j].id # messages[k].id

\* C2: while a Send is in flight a second Send request is rejected, not
\* queued: at most one sendMessage call is in flight, a step taken while
\* sending starts no call, adds no user placeholder and persists no user
\* message, and no accepted input is persisted as more than one user message.
C2_SendsSerialized ==
    /\ [](/\ Cardinality({i \in RunIds : Active(i)}) <= 1
          /\ sending <=> \E i \in RunIds : Active(i)
          /\ \A i \in RunIds : Cardinality(RowsBy(i, "user")) <= 1)
    /\ [][sending =>
            /\ nRuns' = nRuns
            /\ Cardinality(TempUserAt(messages')) <= Cardinality(TempUserAt(messages))
            /\ SelfUserRows(db') \subseteq SelfUserRows(db)]_vars

\* a request made while a Send was in flight has been ignored
C2_Witness ==
    /\ sending /\ ignored /\ nRuns < MaxSends
    /\ \E i \in RunIds : Active(i) /\ RowsBy(i, "user") # {}

\* C3: a change-event whose identifier is already in the in-memory sequence
\* leaves the sequence as it is; one whose identifier is not there appends
\* exactly that record at the end; and delivering the event a second time
\* changes nothing more.
C3_IdempotentMerge ==
    [][DeliverEvent =>
         LET e == Head(events) IN
         /\ IF e.id \in IdsOf(messages)
              THEN messages' = messages
              ELSE /\ Len(messages') = Len(messages) + 1
                   /\ SubSeq(messages', 1, Len(messages)) = messages
                   /\ messages'[Len(messages')] = e
         /\ OnInsert(messages', e) = messages']_vars

\* the event of a row that the list already holds once has been delivered:
\* the Send has handled the insert's response, and no event is pending
C3_Witness ==
    \E i \in RunIds :
        /\ runs[i].pc = "histResp"
        /\ events = <<>>
        /\ Cardinality({k \in DOMAIN messages :
                           messages[k].by = i /\ messages[k].kind = "user"}) = 1

\* the failures thrown inside the inner try, after the thinking placeholder
AiFails == {"config", "unavailable", "provider", "aiPersist"}

\* the entries of the list that are the synthetic error message of call i
SyntheticIn(list, i) == {k \in DOMAIN list : list[k].by = i /\ list[k].kind = "error"}

\* the insert of call i's user message failed
UserFailed(i) == runs[i].pc # "idle" /\ RowsBy(i, "user") = {}

\* C4: if persisting the user message fails, that Send makes no provider
\* call, never inserts a thinking placeholder, persists no assistant message,
\* surfaces the error, and leaves the optimistic user placeholder in the list.
C4_UserPersistFailure ==
    /\ [](\A i \in RunIds : UserFailed(i) =>
            /\ runs[i].pc \in {"userResp", "done"}
            /\ runs[i].did = {}
            /\ runs[i].pc = "done" => runs[i].fail = "user"
            /\ RowsBy(i, "reply") = {} /\ RowsBy(i, "error") = {}
            /\ \A k \in DOMAIN messages : ~IsTempAi(messages[k], i)
            /\ \E k \in DOMAIN messages : IsTempUser(messages[k], i))
    /\ [][\A i \in RunIds : (UserFailed(i) /\ Finishes(i)) =>
            /\ error' = ErrSend(MsgPersist)
            /\ ~sending'
            /\ messages' = messages]_vars

\* a Send has ended on the failure of its user insert
C4_Witness ==
    \E i \in RunIds :
        /\ UserFailed(i) /\ runs[i].pc = "done"
        /\ error = ErrSend(MsgPersist)
        /\ \E k \in DOMAIN messages : IsTempUser(messages[k], i)

\* C5: every Send that starts ends with sending = false, whatever calls
\* succeed or fail, and once it has ended the list holds no thinking
\* placeholder.
C5_SendTerminates ==
    /\ \A i \in RunIds : Active(i) ~> (runs[i].pc = "done" /\ ~sending)
    /\ [](\A i \in RunIds : runs[i].pc = "done" =>
              \A k \in DOMAIN messages : ~IsTempAi(messages[k], i))
    /\ [](~sending => ThinkingAt(messages) = {})

\* a Send that had inserted its thinking placeholder has ended
C5_Witness ==
    \E i \in RunIds :
        /\ runs[i].pc = "done" /\ ~sending
        /\ "thinking" \in runs[i].did
        /\ runs[i].fail \in AiFails

\* C6 as stated: every failure after the user message was persisted,
\* the history re-fetch included, ends with a synthetic error message persisted.
C6_Original ==
    \A i \in RunIds :
        (runs[i].pc = "done" /\ runs[i].fail \in AiFails \cup {"history"})
            => RowsBy(i, "error") # {}

\* C6 amended: a failure inside the inner try (missing key, Ollama not
\* running, provider failure, failure to persist the reply) surfaces an "AI
\* response error", and the insert of a synthetic assistant error message is
\* attempted: when that insert succeeds the message is persisted and spliced
\* in. A failure to persist the user message or to re-fetch the history
\* surfaces an "Error sending message" and no synthetic message is attempted.
C6_FailureConversion ==
    /\ [](\A i \in RunIds :
            /\ runs[i].fail \in AiFails =>
                 "synthetic" \in runs[i].did /\ runs[i].pc \in {"errResp", "done"}
            /\ runs[i].fail \in {"user", "history"} =>
                 /\ "synthetic" \notin runs[i].did
                 /\ runs[i].pc = "done"
                 /\ RowsBy(i, "error") = {}
            /\ RowsBy(i, "error") # {} => runs[i].fail \in AiFails
            /\ Cardinality(RowsBy(i, "error")) <= 1)
    /\ [][\A i \in RunIds :
            /\ (runs[i].fail = "none" /\ runs'[i].fail \in AiFails) =>
                 /\ error' = ErrAi(runs'[i].msg)
                 /\ runs'[i].ret # NoRow =>
                      /\ runs'[i].ret.role = "assistant"
                      /\ runs'[i].ret.content = SorryText(runs'[i].msg)
                      /\ db' = Append(db, runs'[i].ret)
            /\ (runs[i].fail = "none" /\ runs'[i].fail \in {"user", "history"}) =>
                 error' = ErrSend(MsgPersist) /\ db' = db
            /\ (runs[i].pc = "errResp" /\ runs[i].ret # NoRow /\ Finishes(i)) =>
                 SyntheticIn(messages', i) # {}]_vars

\* a Send has ended on the failure of its history re-fetch, its user message
\* persisted and no synthetic message written
C6_Witness ==
    \E i \in RunIds :
        /\ runs[i].pc = "done" /\ runs[i].fail = "history"
        /\ RowsBy(i, "user") # {} /\ RowsBy(i, "error") = {}
        /\ error = ErrSend(MsgPersist)

\* the assistant rows of the store
AssistantRows(table) == {m \in Range(table) : m.role = "assistant"}

\* C7 as stated: with the mode offline and the availability flag false, a
\* Send attempt surfaces the unavailability error and persists no assistant
\* message.
C7_Original ==
    [][(mode = "offline" /\ ~ollamaAvailable /\ HandleSend) =>
          /\ error' = ErrAi(MsgNoOllama)
          /\ AssistantRows(db') = AssistantRows(db)]_vars

\* C7 amended: with the mode offline and the availability flag false the
\* input is disabled, so a Send attempt is dropped before sendMessage is
\* called: no call starts, nothing is persisted, the list, the error and the
\* sending flag are left as they are; the unavailability is shown by the notice
\* rendered from the mode and the flag. The unavailability branch of
\* sendMessage is never taken.
C7_OfflineUnavailable ==
    /\ [][(mode = "offline" /\ ~ollamaAvailable /\ HandleSend) =>
            /\ ignored'
            /\ OllamaNotice'
            /\ UNCHANGED <<db, nextId, events, messages, error, sending, runs, nRuns>>]_vars
    /\ [](\A i \in RunIds :
            /\ runs[i].fail # "unavailable"
            /\ (runs[i].pc # "idle" /\ runs[i].mode = "offline") => runs[i].avail)

\* a Send attempt has been dropped with the mode offline and the flag false
C7_Witness ==
    /\ mode = "offline" /\ ~ollamaAvailable
    /\ ignored /\ ~sending /\ nRuns < MaxModeSends
    /\ error = "" /\ db = <<>>

\* C8: a mode switch requested while the mode is online and the availability
\* flag is false is rejected: the mode stays online, the error is set, and no
\* mode preference is written.
C8_SwitchRejected ==
    [][(mode = "online" /\ ~ollamaAvailable /\ ToggleMode) =>
          /\ mode' = "online"
          /\ error' = ErrMode
          /\ prefMode' = prefMode]_vars

\* a switch to offline has been rejected
C8_Witness ==
    /\ mode = "online" /\ ~ollamaAvailable
    /\ error = ErrMode
    /\ prefMode = "online"

\* C9: a confirmed Reset whose delete succeeds leaves no persisted message and
\* the chats row in place, and its continuation empties the in-memory list; if
\* the delete fails, the store and the list are left unchanged and the error
\* is set.
C9_Reset ==
    [][\A k \in ResetIds :
          /\ (resets[k] = "idle" /\ resets'[k] = "deleted") =>
               db' = <<>> /\ chat' = chat /\ chat.is_active /\ messages' = messages
          /\ (resets[k] = "idle" /\ resets'[k] = "refused") =>
               db' = db /\ chat' = chat /\ messages' = messages
          /\ (resets[k] = "deleted" /\ resets'[k] # "deleted") =>
               /\ resets'[k] = "cleared"
               /\ messages' = <<>> /\ error' = "" /\ ~loading'
               /\ chat' = chat /\ chat.is_active /\ db' = db
          /\ (resets[k] = "refused" /\ resets'[k] # "refused") =>
               /\ resets'[k] = "failed"
               /\ messages' = messages /\ error' = ErrReset /\ ~loading'
               /\ db' = db]_vars

\* a Reset has deleted the messages of a conversation that had some and
\* emptied a list that had some
C9_Witness ==
    \E k \in ResetIds, i \in RunIds :
        /\ resets[k] = "cleared"
        /\ db = <<>> /\ messages = <<>> /\ nextId > 1
        /\ runs[i].pc = "done" /\ runs[i].fail = "none"
        /\ chat.is_active

\* no Reset has deleted the messages
NoDelete == \A k \in ResetIds : resets[k] \notin {"deleted", "cleared"}

\* the user message followed by the assistant reply of call i, and nothing else
ExactlyTheTwo(table, i) ==
    /\ Len(table) = 2
    /\ table[1].by = i /\ table[1].kind = "user" /\ table[1].role = "user"
    /\ table[2].by = i /\ table[2].kind = "reply" /\ table[2].role = "assistant"

C11_DerivedTitle ==
    out.fn = "title" =>
        IF Len(arg.text) <= 30
        THEN out.title = arg.text
        ELSE /\ Len(out.title) = 33
             /\ SubSeq(out.title, 1, 30) = SubSeq(arg.text, 1, 30)
             /\ SubSeq(out.title, 31, 33) = "..."

\* the title of a text of exactly 30 characters has been derived
C11_Witness ==
    /\ out.fn = "title" /\ Len(arg.text) = 30
    /\ out.title = arg.text /\ arg.text # Rep(" ", 30)

\* the stored images as parseMessageContent returns them
AsJsStrings(images) == [k \in DOMAIN images |-> JsStr(images[k])]

\* C12: for every text t, stored without images, the content column is t
\* itself and rendering it gives back the text t and no images, also when t
\* begins with "{", ends with "}" and parses as an object with a text field.
C12_PlainRoundTrip ==
    (out.fn = "store" /\ arg.images = <<>>) =>
        /\ out.content = arg.text
        /\ out.parsed = [text |-> JsStr(arg.text), images |-> <<>>]

\* C13: for every text t (the empty text included) and every non-empty
\* sequence of images I, rendering the stored content gives back t and I, the
\* images in the same order.
C13_ImageRoundTrip ==
    (out.fn = "store" /\ arg.images # <<>>) =>
        out.parsed = [text |-> JsStr(arg.text), images |-> AsJsStrings(arg.images)]

\* a message with the empty text and two different images, one of them with a
\* quote in it, has been stored and rendered
C13_Witness ==
    /\ out.fn = "store" /\ arg.text = ""
    /\ arg.images = <<"a\"b", "img1">>
    /\ out.parsed.images = <<JsStr("a\"b"), JsStr("img1")>>

\* the content does not begin with "{" and end with "}"
NoOuterShape(c) == ~(Ch(c, 1) = "{" /\ Ch(c, Len(c)) = "}")

\* C14: parseMessageContent always returns, and for a content that has not
\* the outer shape of an object, that does not parse, or whose parsed value
\* has no text field, it returns the content as the text and no images.
C14_DecodeFallback ==
    /\ out.fn = "parse" =>
          /\ DOMAIN out.parsed = {"text", "images"}
          /\ out.parsed.text.t \in {"str", "num", "lit", "arr", "obj"}
    /\ (out.fn = "parse" /\ (\/ NoOuterShape(arg.content)
                             \/ ~JsonParse(arg.content).ok
                             \/ ~HasKey(JsonParse(arg.content).val, "text")))
         => out.parsed = [text |-> JsStr(arg.content), images |-> <<>>]

\* an object without a text field has been rendered as plain text
C14_Witness ==
    /\ out.fn = "parse" /\ arg.content = "{\"images\":[\"img1\"]}"
    /\ JsonParse(arg.content).ok
    /\ out.parsed.text = JsStr(arg.content)

\* the contents of the messages of a request, and of a history
Contents(msgs) == [k \in DOMAIN msgs |-> msgs[k].content]

\* the model a call of the Remote client uses
GroqModelOf(a) == IF a.model = "" THEN DefaultGroqModel ELSE a.model

\* C15: every request a client sends, Remote or Local, with or without
\* images, carries exactly the last min(n, 10) messages of the history, in
\* order.
C15_ContextCap ==
    (out.fn \in {"groq", "ollama"} /\ out.call.sent) =>
        Contents(out.call.request.messages)
            = Contents(LastN(History(arg.n), ContextMax))

\* C16: the Local client uses the first installed model when the requested
\* one is not installed, and with no model installed it fails with an error
\* that differs from the error of an unreachable server.
C16_LocalModelChoice ==
    (out.fn = "ollama" /\ arg.tags.ok /\ arg.tags.hasModels) =>
        IF arg.tags.models # <<>>
        THEN /\ out.call.error # ErrOllamaDown
             /\ out.call.sent =>
                  out.call.request.model =
                    IF arg.model \in Range(arg.tags.models) THEN arg.model
                    ELSE arg.tags.models[1]
        ELSE /\ ~out.call.sent
             /\ out.call.error # ""
             /\ out.call.error # ErrOllamaDown

\* the call fared as the same call without images
AsWithoutImages ==
    IF arg.fn = "groq"
    THEN LET plain == GetGroqCompletion(History(arg.n), <<>>, arg.key, arg.model,
                                        arg.resp)
         IN out.call.sent = plain.sent /\ out.call.error = plain.error
    ELSE LET plain == GetOllamaCompletion(History(arg.n), arg.model, <<>>,
                                          arg.tags, arg.resp)
         IN out.call.sent = plain.sent /\ out.call.error = plain.error

\* C17: for either client, when the model in use does not support vision, a
\* call given images sends a request without image parts and fares as the
\* call without the images.
C17_ImagesDropped ==
    /\ (out.fn = "groq" /\ ~ModelSupportsGroqVision(GroqModelOf(arg)))
         => /\ \A k \in DOMAIN out.call.request.messages :
                   out.call.request.messages[k].images = <<>>
            /\ AsWithoutImages
    /\ (out.fn = "ollama" /\ out.call.sent
          /\ ~ModelSupportsVision(out.call.request.model))
         => /\ \A k \in DOMAIN out.call.request.messages :
                   out.call.request.messages[k].images = <<>>
            /\ AsWithoutImages

\* C18: an open session has at most one subscribed channel, the one kept in
\* subscriptionRef; when a channel is subscribed every channel subscribed
\* before has been unsubscribed; after the unmount none is subscribed.
C18_OneSubscription ==
    /\ [](/\ Cardinality(channels) <= 1
          /\ chatId # Unmounted => channels = {subscriptionRef}
          /\ chatId = Unmounted => channels = {})
    /\ [][nChannels' # nChannels =>
            /\ channels' = {nChannels'}
            /\ channels \cap channels' = {}]_vars

\* the chat has been switched twice and the component unmounted
C18_Witness ==
    /\ chatId = Unmounted
    /\ nChannels = 3 /\ subscriptionRef = 3
    /\ channels = {}

\* C19: the queue of images of the message being composed never holds more
\* than 5 images, and no Send is given more than 5 images, however the
\* completions of uploads, the removals and the Sends interleave.
C19_QueueBound ==
    /\ [](/\ Len(imageQueue) <= 5
          /\ \A i \in RunIds : Len(runs[i].images) <= 5)
    /\ [][nRuns' # nRuns =>
            /\ runs'[nRuns'].images = imageQueue
            /\ imageQueue' = <<>>]_vars

\* the queue is full while uploads started before are still in flight
C19_Witness ==
    /\ Len(imageQueue) = 5
    /\ BagCardinality(uploads) >= 2
    /\ \E u \in BagToSet(uploads) : Len(u.images) = 4

\* a Send of the conversation has derived the title and written it
TitleDerived ==
    \E i \in RunIds :
        /\ runs[i].pc = "done"
        /\ "rename" \in runs[i].did /\ runs[i].fail = "none"

\* C20: once a Send has derived the title of the conversation, no later Send
\* changes the title, also after a Reset and whatever the first text was.
C20_TitleOnce ==
    [][TitleDerived => chat'.title = chat.title]_vars

\* the text of the first user message of the conversation ("" without one)
FirstUserText(table) ==
    IF \E k \in DOMAIN table : table[k].role = "user"
    THEN LET first == CHOOSE k \in DOMAIN table :
                          /\ table[k].role = "user"
                          /\ \A j \in DOMAIN table : table[j].role = "user" => k <= j
         IN ParseMessageContent(table[first].content).text.v
    ELSE ""

\* the step in which call i writes the title
Renames(i) == runs[i].pc = "titleResp" /\ runs'[i].pc = "renameResp" /\ chat' # chat

\* C21: whenever a Send renames the conversation, the history it fetched has
\* at most 2 messages, the title was the default, and the new title is
\* derived from the first user message of the conversation; and whenever the
\* first exchange of a default-titled conversation ends, with the provider
\* succeeding or failing, the title has been derived from that message.
C21_TitleFromFirstMessage ==
    [][\A i \in RunIds :
          /\ Renames(i) =>
               /\ runs[i].hist <= 2
               /\ chat.title = DefaultTitle
               /\ chat'.title = DeriveTitle(FirstUserText(db))
          /\ (Finishes(i) /\ runs'[i].hist = 1 /\ "thinking" \in runs'[i].did
                /\ NoDelete')
               => chat'.title = DeriveTitle(runs'[i].content)]_vars

\* the step in which call i handles the success of its user insert
UserPersisted(i) ==
    runs[i].pc = "userResp" /\ runs[i].ret # NoRow /\ runs'[i].pc = "histResp"

\* C22: when the user insert succeeds, the entries that are the placeholder
\* of this Send are replaced by the inserted row and every other entry stays
\* as it is, among them entries of the same content and the placeholders that
\* earlier failed Sends left; afterwards the list does not hold the
\* placeholder of this Send.
C22_ReplaceByIdentity ==
    [][\A i \in RunIds : UserPersisted(i) =>
          /\ Len(messages') = Len(messages)
          /\ \A k \in DOMAIN messages :
                messages'[k] = IF IsTempUser(messages[k], i) THEN runs[i].ret
                               ELSE messages[k]
          /\ \A k \in DOMAIN messages' : ~IsTempUser(messages'[k], i)]_vars

\* the user message of the second Send has replaced its placeholder next to
\* the placeholder of the same content that the failed first Send left
C22_Witness ==
    /\ runs[1].pc = "done" /\ runs[1].fail = "user"
    /\ runs[2].pc = "histResp" /\ runs[2].content = runs[1].content
    /\ \E j, k \in DOMAIN messages :
          /\ IsTempUser(messages[j], 1)
          /\ messages[k].by = 2 /\ messages[k].kind = "user"
          /\ messages[j].content = messages[k].content

\* One Send with Load and a second writer, no Reset, under the scheduling
\* the code relies on: the select of fetchMessages and every awaited call of
\* sendMessage return, and the channel hands over every queued change-event.
MaxLoadSends == 1

NextLoad ==
    /\ \/ HandleSend /\ nRuns' <= MaxLoadSends
       \/ \E i \in RunIds : SendStep(i)
       \/ DeliverEvent
       \/ OtherInsert
       \/ LoadResp
    /\ Quiet

SpecLoad == InitReset /\ [][NextLoad]_vars

FairLoad ==
    /\ SpecLoad
    /\ \A i \in RunIds : WF_vars(SendStep(i) /\ Quiet)
    /\ WF_vars(DeliverEvent /\ Quiet)
    /\ WF_vars(LoadResp /\ Quiet)

\* the identifiers the store hands out
RowIds == 1..(MaxInit + MaxOther + 2 * MaxSends)

\* C23: with the session open, the change-events delivered and no Reset,
\* every message persisted in the conversation, one inserted while the
\* initial Load is in flight among them, is from some moment on always in
\* the in-memory list.
C23_EventuallyVisible ==
    \A id \in RowIds :
        [](id \in IdsOf(db) => <>[](id \in IdsOf(messages)))

\* C24: the persisted entries of the in-memory list are in the order in
\* which the store created them (the store hands out increasing
\* identifiers), whatever the interleaving of Sends, change-events of a
\* second writer and Loads.
C24_StoreOrder ==
    \A j, k \in DOMAIN messages :
        (j < k /\ messages[j].id # NoId /\ messages[k].id # NoId)
            => messages[j].id <= messages[k].id

\* the step in which the user confirms a Reset
ResetBegins(k) == resets[k] = "idle" /\ resets'[k] # "idle"

\* call i is past its user insert, a Reset has been completed and the user
\* message the call inserted is no longer in the store: the Reset deleted it
OutlivedReset(i) ==
    /\ Active(i) /\ runs[i].pc # "userResp"
    /\ \E k \in ResetIds : resets[k] = "cleared"
    /\ RowsBy(i, "user") = {}

\* the identifiers of the persisted messages of call i in a list
PersistedBy(list, i) ==
    {list[k].id : k \in {n \in DOMAIN list : list[n].by = i}} \ {NoId}

\* C25: no Reset begins while a Send is in flight, and once a Reset has
\* been completed successfully no message of a Send that started before it
\* is persisted or put into the in-memory list.
C25_ResetFromReady ==
    [][/\ \A k \in ResetIds : ResetBegins(k) => ~sending
       /\ \A i \in RunIds : OutlivedReset(i) =>
             /\ PersistedBy(db', i) \subseteq PersistedBy(db, i)
             /\ PersistedBy(messages', i) \subseteq PersistedBy(messages, i)]_vars

\* the step in which fetchMessages handles the answer of its select
LoadCompletes == load.pc = "resp" /\ load'.pc = "done"

\* C26: right after a successful Load the in-memory list is exactly the
\* fetched history, whatever it held before; a failed Load leaves the list as
\* it is and sets the error.
C26_LoadReplaces ==
    [][LoadCompletes =>
          IF load.ok THEN messages' = load.data
          ELSE messages' = messages /\ error' = ErrLoad]_vars

\* a successful Load has completed while a Send was past its user insert,
\* and the list does not hold the user message it held before
C26_Witness ==
    /\ load.pc = "done" /\ load.ok
    /\ \E i \in RunIds :
          /\ runs[i].pc = "histResp"
          /\ PersistedBy(messages, i) = {}

\* One Send with the availability probe, the settings fetch and the mode
\* switch. Load stays pending, the change-events stay queued.
MaxMonitorSends == 1

InitMonitoring ==
    /\ InitSession /\ db = <<>> /\ groqKey /\ load.ok
    /\ InitMonitor /\ InitPure /\ InitComposer /\ InitSubscription /\ InitPage

NextMonitoring ==
    \/ /\ \/ HandleSend /\ nRuns' <= MaxMonitorSends
          \/ \E i \in RunIds : SendStep(i)
          \/ ToggleMode
       /\ Quiet
    \/ SettingsResp /\ Hush
    \/ ProbeStart \/ ProbeRunning \/ ProbeModels

SpecMonitoring == InitMonitoring /\ [][NextMonitoring]_vars

\* the steps of a checkOllama call: it is called, or one of its awaits returns
ProbeSteps == probe' # probe

\* the step in which isOllamaRunning has resolved to false
ProbeFails == probe.pc = "running" /\ probe'.pc = "idle"

\* the step in which getOllamaModels has resolved
ProbeLists == probe.pc = "models" /\ probe'.pc = "idle"

\* what no step of the probe writes
ProbeFrame ==
    UNCHANGED <<storeVars, chat, prefMode, groqKey, messages, loading, error,
                sending, mode, runs, nRuns, ignored, load, settings, resets,
                nOther, pureVars, composerVars, subscriptionVars, pageVars>>

\* C28 as stated: a step of the probe writes the availability flag and the
\* model list only; the selected local model, the mode, the messages, the
\* sending flag and the error are left as they are.
C28_Original ==
    [][ProbeSteps => ProbeFrame /\ ollamaModel' = ollamaModel]_vars

\* C28 amended: a step of the probe writes the availability flag, the model
\* list and, when the fetched list is not empty and does not include the
\* model the probe was started with, the selected local model; the mode, the
\* messages, the sending flag and the error are left as they are.
C28_ProbeWrites ==
    [][ProbeSteps =>
          /\ ProbeFrame
          /\ ollamaModel' # ollamaModel =>
                /\ ProbeLists
                /\ Reselects(availableModels', probe.model)
                /\ ollamaModel' = availableModels'[1]
          /\ availableModels' # availableModels => ProbeLists
          /\ ollamaAvailable' # ollamaAvailable => probe.pc = "running"]_vars

\* a probe has put the first listed model in the place of the default
\* model while a Send was in flight
C28_Witness ==
    /\ probe.pc = "idle"
    /\ availableModels = <<"llama3", "mistral">>
    /\ ollamaModel = "llama3"
    /\ ollamaAvailable
    /\ \E i \in RunIds : Active(i)

\* C29: a probe that fetches a non-empty list without the currently
\* selected local model selects the first listed model; a probe that fetches
\* an empty list and a probe that fails leave the selected model as it is.
C29_Reselect ==
    [][/\ ProbeLists =>
             IF Reselects(availableModels', ollamaModel)
             THEN ollamaModel' = availableModels'[1]
             ELSE availableModels' = <<>> => ollamaModel' = ollamaModel
       /\ ProbeFails => ollamaModel' = ollamaModel]_vars

MaxTeardownSends == 1

Mounted == chatId # Unmounted

NextTeardown ==
    \/ /\ \/ Mounted /\ HandleSend /\ nRuns' <= MaxTeardownSends
          \/ \E i \in RunIds : SendStep(i)
          \/ DeliverEvent
       /\ Quiet
    \/ Unmount
    \/ ProbeStart \/ ProbeRunning \/ ProbeModels

FairTeardown ==
    /\ InitMonitoring
    /\ [][NextTeardown]_vars
    /\ \A i \in RunIds : WF_vars(SendStep(i) /\ Quiet)

\* the subscription is unsubscribed and no probe is started once the
\* component is unmounted
TornDown ==
    /\ [](~Mounted => subscriptionRef \notin channels)
    /\ [][~Mounted => /\ Len(events') >= Len(events)
                      /\ ~(probe.pc = "idle" /\ probe'.pc # "idle")]_vars

\* C27 as stated: teardown unsubscribes and stops the timer, and a Send in
\* flight at teardown ends with its assistant reply or its synthetic error
\* message persisted.
C27_Original ==
    /\ TornDown
    /\ \A i \in RunIds :
          (~Mounted /\ Active(i)) ~>
              /\ runs[i].pc = "done"
              /\ RowsBy(i, "reply") \cup RowsBy(i, "error") # {}

\* C27 amended: teardown unsubscribes and stops the timer, and a Send in
\* flight at teardown goes on to its end as it would have: with its reply
\* persisted when it ends without a failure of the exchange, and with the
\* insert of the synthetic error message attempted when the provider stage
\* or the insert of the reply fails. It persists neither when the insert of
\* its user message or its history fetch fails.
C27_Teardown ==
    /\ TornDown
    /\ \A i \in RunIds : (~Mounted /\ Active(i)) ~> (runs[i].pc = "done")
    /\ [](\A i \in RunIds : (~Mounted /\ runs[i].pc = "done") =>
             /\ runs[i].fail \in {"none", "titleSelect", "rename"}
                   => RowsBy(i, "reply") # {}
             /\ runs[i].fail \in AiFails => "synthetic" \in runs[i].did
             /\ runs[i].fail \in {"user", "history"}
                   => RowsBy(i, "reply") \cup RowsBy(i, "error") = {})

\* the component is unmounted and unsubscribed while a Send awaits its
\* provider
C27_Witness ==
    /\ ~Mounted /\ subscriptionRef \notin channels
    /\ \E i \in RunIds : runs[i].pc = "provider"

\* the step in which call i finds that no key is configured
NoKeyFound(i) == runs[i].fail = "none" /\ runs'[i].fail = "config"

\* C31: an online Send without a configured key calls no remote
\* completion; the failure is surfaced as the error of that call, and the
\* Send ends with the input enabled again.
C31_NoCredential ==
    /\ [](\A i \in RunIds :
            /\ (Active(i) /\ runs[i].mode = "online" /\ ~groqKey) =>
                  runs[i].pc # "provider" /\ "provider" \notin runs[i].did
            /\ runs[i].fail = "config" => "provider" \notin runs[i].did)
    /\ [][\A i \in RunIds : NoKeyFound(i) =>
            /\ runs[i].mode = "online" /\ ~groqKey
            /\ error' = ErrAi(MsgNoKey)]_vars
    /\ \A i \in RunIds :
          (Active(i) /\ runs[i].mode = "online" /\ ~groqKey) ~>
              (runs[i].pc = "done" /\ runs[i].fail \in {"user", "history", "config"}
                 /\ ~sending /\ ~InputDisabled)

\* an online Send has ended on the missing key: the error names it, the
\* input is enabled
C31_Witness ==
    \E i \in RunIds :
        /\ runs[i].pc = "done" /\ runs[i].fail = "config"
        /\ error = ErrAi(MsgNoKey)
        /\ ~sending /\ ~InputDisabled

\* C32: in the request of a remote completion called with images, every
\* message but the last has plain string content, and the content of the
\* last one is its text followed by one image part per image, in the order
\* given.
C32_LastMessageMultimodal ==
    (out.fn = "groq" /\ arg.images # <<>> /\ out.call.sent) =>
        LET sent == out.call.request.messages
            window == LastN(History(arg.n), ContextMax)
        IN /\ Len(sent) = Len(window) /\ Len(sent) >= 1
           /\ \A k \in 1..(Len(sent) - 1) :
                 /\ sent[k].images = <<>>
                 /\ sent[k].content = window[k].content
           /\ sent[Len(sent)].content = window[Len(window)].content
           /\ sent[Len(sent)].images = arg.images

\* a remote completion was called with two images and a history of several
\* messages
C32_Witness ==
    /\ out.fn = "groq" /\ out.call.sent
    /\ Len(arg.images) = 2
    /\ Len(out.call.request.messages) >= 3

\* ------------------------------------- sendMessage: what the provider gets
MaxContext == 2     \* messages of the history fetched by a Send

\* the history kept as it is stored
M_ProcessedMessagesRaw(rows) ==
    [k \in DOMAIN rows |-> [role |-> rows[k].role, content |-> JsStr(rows[k].content)]]

\* processedMessages: allMessagesData.map(msg => ({...msg, content: text}))
\* with text of parseMessageContent(msg.content)
ProcessedMessages(rows) ==
    [k \in DOMAIN rows |->
        [role |-> rows[k].role, content |-> ParseMessageContent(rows[k].content).text]]

\* the call of the provider: getGroqCompletion(processedMessages, images)
\* online, getOllamaCompletion(processedMessages, ollamaModel) offline
ProviderCall(m, rows, images) ==
    IF m = "online"
    THEN [provider |-> "groq", messages |-> ProcessedMessages(rows), images |-> images]
    ELSE [provider |-> "ollama", messages |-> ProcessedMessages(rows), images |-> <<>>]

\* the messages of a history: what was sent and how it is stored
SentMessages ==
    {[role |-> r, text |-> t, images |-> im, content |-> StoredContent(t, im)] :
        r \in {"user", "assistant"}, t \in {"Hello", "", "{\"text\":\"hi\"}"},
        im \in {<<>>, <<"img1">>, <<"img1", "a\"b">>}}

DispatchArgs ==
    {[fn |-> "dispatch", mode |-> m, rows |-> h, images |-> im] :
        m \in {"online", "offline"}, h \in SeqsUpTo(SentMessages, MaxContext),
        im \in ClientImages}

CallDispatch ==
    /\ arg.fn = "dispatch" /\ out.fn = "none"
    /\ out' = [fn |-> "dispatch", call |-> ProviderCall(arg.mode, arg.rows, arg.images)]
    /\ UNCHANGED <<arg, sessionVars, monitorVars, composerVars, subscriptionVars, pageVars>>

\* The provider dispatch of sendMessage, called once on one of the arguments.
InitDispatch ==
    /\ InitIdle /\ InitMonitor /\ InitComposer /\ InitSubscription /\ InitPage
    /\ arg \in DispatchArgs
    /\ out = NoOut

SpecDispatch == InitDispatch /\ [][CallDispatch]_vars

\* C33: every message of the history handed to the provider carries the
\* decoded text of the stored message, without the images stored with it;
\* the images handed over are those of the current turn, and offline none.
C33_HistoryTextOnly ==
    out.fn = "dispatch" =>
        /\ Len(out.call.messages) = Len(arg.rows)
        /\ \A k \in DOMAIN arg.rows :
              /\ out.call.messages[k].role = arg.rows[k].role
              /\ out.call.messages[k].content
                    = ParseMessageContent(arg.rows[k].content).text
              /\ arg.rows[k].images # <<>> =>
                    out.call.messages[k].content = JsStr(arg.rows[k].text)
        /\ out.call.images = IF arg.mode = "online" THEN arg.images ELSE <<>>

\* an offline Send with an image of its own and a history that holds a
\* message stored with images
C33_Witness ==
    /\ out.fn = "dispatch" /\ arg.mode = "offline" /\ arg.images # <<>>
    /\ \E k \in DOMAIN arg.rows : Len(arg.rows[k].images) = 2

\* ------------------------------- the clients: the response of the provider
\* what reading a response comes to: the text returned, or the error thrown
Returned(text) == [threw |-> FALSE, kind |-> "", message |-> "", text |-> text]
Thrown(kind, message) == [threw |-> TRUE, kind |-> kind, message |-> message, text |-> ""]

RECURSIVE ToText(_)
\* String(val), as new Error(val) makes its message
ToText(val) ==
    IF val.t \in {"str", "num", "lit"} THEN val.v
    ELSE IF val.t = "obj" THEN "[object Object]"
    ELSE IF val.items = <<>> THEN ""
    ELSE IF Len(val.items) = 1 THEN ToText(val.items[1])
    ELSE ToText(val.items[1]) \o "," \o ToText(JsArr(Tail(val.items)))

\* val.key of a parsed value: undefined for a missing member and for a
\* value that is not an object
Member(val, key) ==
    IF val.t = "obj" /\ HasKey(val, key) THEN GetKey(val, key) ELSE JsLit("undefined")

IsNullish(val) == val.t = "lit" /\ val.v \in {"null", "undefined"}

GroqStatusError(status) == "Error calling Groq API: " \o ToString(status)

\* getGroqCompletion on a response that is not ok:
\*   const errorData = await response.json();
\*   throw new Error(errorData.error?.message || `Error calling Groq API: ${status}`)
\* and the catch around it throws again what it caught
GroqFailure(status, body) ==
    LET errorData == JsonParse(body) IN
    IF ~errorData.ok THEN Thrown("SyntaxError", "Unexpected token in JSON")
    ELSE IF IsNullish(errorData.val)
    THEN Thrown("TypeError", "Cannot read properties of null (reading 'error')")
    ELSE LET upstream == Member(errorData.val, "error")
             message == IF IsNullish(upstream) THEN JsLit("undefined")
                        ELSE Member(upstream, "message")
         IN IF IsNullish(message) \/ Falsy(message)
            THEN Thrown("Error", GroqStatusError(status))
            ELSE Thrown("Error", ToText(message))

ErrOllamaFormat == "Invalid response format from Ollama"

\* getOllamaCompletion on a response that is ok:
\*   const data = await response.json();
\*   if (!data.message || typeof data.message.content !== 'string')
\*       throw new Error('Invalid response format from Ollama');
\*   return data.message.content
\* and the catch around it throws again what it caught
OllamaBody(body) ==
    LET data == JsonParse(body) IN
    IF ~data.ok THEN Thrown("SyntaxError", "Unexpected token in JSON")
    ELSE IF IsNullish(data.val)
    THEN Thrown("TypeError", "Cannot read properties of null (reading 'message')")
    ELSE LET message == Member(data.val, "message") IN
         IF IsNullish(message) \/ Falsy(message) THEN Thrown("Error", ErrOllamaFormat)
         ELSE IF Member(message, "content").t # "str"
         THEN Thrown("Error", ErrOllamaFormat)
         ELSE Returned(Member(message, "content").v)

\* statuses that are not 2xx, and bodies of such responses
FailureStatuses == {400, 401, 429, 500, 503}

GroqErrorBodies ==
    {"", "Bad Gateway", "null", "{}", "5", "{\"error\":null}", "{\"error\":\"down\"}",
     "{\"error\":{}}", "{\"error\":{\"message\":\"\"}}",
     "{\"error\":{\"message\":\"Rate limit reached\"}}",
     "{\"error\":{\"message\":429}}"}

\* bodies of responses of /api/chat with a successful status
OllamaBodies ==
    {"", "not json", "null", "{}", "5", "[1]", "{\"message\":null}",
     "{\"message\":\"Hi\"}", "{\"message\":{}}", "{\"message\":{\"content\":5}}",
     "{\"message\":{\"content\":null}}", "{\"message\":{\"content\":\"\"}}",
     "{\"message\":{\"content\":\"Hi there\"}}", "{\"message\":{\"content\":\"Hi\"}"}

ResponseArgs ==
    {[fn |-> "groqFailure", status |-> st, body |-> b] :
        st \in FailureStatuses, b \in GroqErrorBodies}
      \cup {[fn |-> "ollamaBody", status |-> 200, body |-> b] : b \in OllamaBodies}

CallGroqFailure ==
    /\ arg.fn = "groqFailure" /\ out.fn = "none"
    /\ out' = [fn |-> "groqFailure", res |-> GroqFailure(arg.status, arg.body)]
    /\ UNCHANGED <<arg, sessionVars, monitorVars, composerVars, subscriptionVars, pageVars>>

CallOllamaBody ==
    /\ arg.fn = "ollamaBody" /\ out.fn = "none"
    /\ out' = [fn |-> "ollamaBody", res |-> OllamaBody(arg.body)]
    /\ UNCHANGED <<arg, sessionVars, monitorVars, composerVars, subscriptionVars, pageVars>>

\* The clients reading a response, each called once on one of the responses.
InitResponses ==
    /\ InitIdle /\ InitMonitor /\ InitComposer /\ InitSubscription /\ InitPage
    /\ arg \in ResponseArgs
    /\ out = NoOut

SpecResponses == InitResponses /\ [][CallGroqFailure \/ CallOllamaBody]_vars

\* the error.message of the body of a response, undefined where the body
\* has none
UpstreamMessage(body) ==
    LET d == JsonParse(body) IN
    IF d.ok /\ ~IsNullish(Member(d.val, "error"))
    THEN Member(Member(d.val, "error"), "message")
    ELSE JsLit("undefined")

\* C34: on every response that is not 2xx the remote client fails with the
\* upstream message when the response carries one, and else (no message, a
\* body that cannot be parsed) with the generic error that names the status.
C34_RemoteFailure ==
    out.fn = "groqFailure" =>
        /\ out.res.threw /\ out.res.kind = "Error"
        /\ out.res.message =
              IF IsNullish(UpstreamMessage(arg.body)) \/ Falsy(UpstreamMessage(arg.body))
              THEN GroqStatusError(arg.status)
              ELSE ToText(UpstreamMessage(arg.body))

\* the body has a message whose content is a string
HasStringContent(body) ==
    LET d == JsonParse(body) IN
    d.ok /\ Member(Member(d.val, "message"), "content").t = "str"

\* C35: on every response of the local endpoint with a successful status
\* whose body is absent, cannot be parsed or has no string message content,
\* the local client fails with the invalid-response-format error and
\* returns no text.
C35_LocalInvalidBody ==
    (out.fn = "ollamaBody" /\ ~HasStringContent(arg.body)) =>
        /\ out.res.threw /\ out.res.text = ""
        /\ out.res.kind = "Error" /\ out.res.message = ErrOllamaFormat

\* C36: a persisted assistant message carries no images: for every reply r
\* of the provider, one that looks like the structured encoding included,
\* rendering the content persisted for it gives the text r and no images.
C36_AssistantNoImages ==
    out.fn = "reply" =>
        /\ out.parsed.images = <<>>
        /\ out.parsed.text = JsStr(arg.text)

\* C37: the list holds at most one thinking placeholder, it holds one only
\* while sending is true, and no row of the messages table is a thinking
\* placeholder.
C37_OneThinking ==
    /\ Cardinality(ThinkingAt(messages)) <= 1
    /\ ThinkingAt(messages) # {} => sending
    /\ \A k \in DOMAIN db : db[k].kind # "tempAi" /\ db[k].id # NoId

\* a Send waits for its provider with its thinking placeholder displayed,
\* after its user message was persisted
C37_Witness ==
    \E i \in RunIds :
        /\ runs[i].pc = "provider"
        /\ \E k \in DOMAIN messages : IsTempAi(messages[k], i)
        /\ \E k \in DOMAIN db : db[k].by = i

\* C38: the mode becomes offline only by a step taken while the availability
\* flag is true; the continuation of the settings fetch never sets the mode
\* to offline while the flag is false.
C38_OfflineOnlyAvailable ==
    [][(mode # "offline" /\ mode' = "offline") => ollamaAvailable]_vars

\* C39: the probe replaces the selected local model only when that model is
\* not in the list written by the same step: a probe called before the
\* selected model changed does not overwrite a selected model that is
\* installed.
C39_NoStaleOverwrite ==
    [][(ProbeLists /\ ollamaModel' # ollamaModel) =>
          \A k \in DOMAIN availableModels' : availableModels'[k] # ollamaModel]_vars

\* ChatPage from its mount: the chats table is empty or holds one active
\* conversation, and the fetchChats call of the mount effect awaits its
\* select. The session of the conversation stays as it is.
InitPageMount ==
    /\ InitIdle /\ InitMonitor /\ InitPure /\ InitComposer
    /\ chatId = 1 /\ subscriptionRef = 1 /\ channels = {1} /\ nChannels = 1
    /\ chatsTable \in {<<>>, <<ChatRow(1, "initial")>>}
    /\ chatsEvents = 0
    /\ chats = <<>>
    /\ activeChat = NoChat
    /\ pageLoading = TRUE
    /\ pageError = ""
    /\ \E ok \in BOOLEAN :
         fetchCalls = <<[ok |-> ok, data |-> ActiveChats(chatsTable)]>>
    /\ createCalls = <<>>
    /\ deleteCalls = <<>>

SpecPage == InitPageMount /\ [][NextPage]_vars

\* the active rows inserted by a createNewChat call that fetchChats or
\* deleteChat made
CreatedOnDemand ==
    {k \in DOMAIN chatsTable :
        chatsTable[k].is_active /\ chatsTable[k].by \in {"fetch", "delete"}}

\* no call of ChatPage is in flight and no change-event is queued
PageSettled ==
    /\ fetchCalls = <<>> /\ createCalls = <<>> /\ deleteCalls = <<>>
    /\ chatsEvents = 0

\* C40: the conversations created because none was active: at most one of
\* them is active at any time, whatever the order of the refresh on a
\* change-event and the createNewChat call of deleteChat; once every call
\* has returned without an error there is an active conversation; and no
\* step removes a row of the chats table or changes its identifier.
C40_OneOnDemand ==
    /\ [](Cardinality(CreatedOnDemand) <= 1)
    /\ []((PageSettled /\ pageError = "") => ActiveChats(chatsTable) # <<>>)
    /\ [][/\ Len(chatsTable') >= Len(chatsTable)
          /\ \A k \in DOMAIN chatsTable : chatsTable'[k].id = chatsTable[k].id]_vars
====
